---- MODULE Spec2Model ----
(***************************************************************************)
(* EDF scheduler extension of the FreeRTOS kernel (RP2040 port).           *)
(*                                                                         *)
(* The model covers the admission controller and registry, the deadline-   *)
(* ordered ready list, the tick-driven release engine, the dispatcher and  *)
(* the periodic task body of the demo (vEDFTask).                          *)
(*                                                                         *)
(* The kernel file tasks.c is not part of the sources at hand; its         *)
(* behaviour is taken from the change log and the design document, which   *)
(* describe every kernel modification, and from the demo programs that     *)
(* call it.                                                                *)
(***************************************************************************)
EXTENDS Integers, Sequences, FiniteSets

(***************************************************************************)
(* Program constants                                                       *)
(***************************************************************************)
configMAX_EDF_TASKS == 128
configTICK_RATE_HZ == 1000
edfLL_SCALE == 10000
edfHORIZON_PERIODS == 4
edfHORIZON_SECONDS == 60

pdPASS == "pdPASS"
errCOULD_NOT_ALLOCATE_REQUIRED_MEMORY == "errCOULD_NOT_ALLOCATE_REQUIRED_MEMORY"

\* pxCurrentTCB value standing for the idle task (priority 0, not EDF).
IdleTask == 0

(***************************************************************************)
(* Bounds of the model                                                     *)
(***************************************************************************)
\* Largest number of EDF tasks created in the scheduling specification.
MaxTasks == 3
\* Last tick the scheduling specification simulates.
MaxTick == 8
\* Largest number of EDF tasks created in the admission specification.
MaxAdmTasks == 3
\* Free registry slots left in the initial states of the capacity specification.
CapSlack == 2
\* Most tasks created in the ready-list specification.
MaxListTasks == 4
\* Largest heap, counted in tasks, of the initial states of the heap specification.
MaxHeapTasks == 2

VARIABLES
    xTickCount,          \* kernel tick counter
    xSchedulerRunning,   \* TRUE once vTaskStartScheduler has run
    xEDFTaskRegistry,    \* sequence of admitted (C, T, D); uxEDFTaskCount is its length
    tcbs,                \* sequence of task control blocks, index = task handle
    pxReadyTasksLists,   \* the priority-1 ready list: sequence of task handles, head first
    xDelayedTaskList,    \* delayed list: sequence of task handles ordered by wake time
    pxCurrentTCB,        \* handle of the running task, IdleTask for the idle task
    body,                \* per task: locals of vEDFTask (pc, xLastWakeTime, xStart)
    insertStamp,         \* per task: order stamp of its latest ready-list insertion
    insertCount,         \* number of ready-list insertions so far
    lastCall,            \* the most recent kernel entry and what it returned
    harness,             \* locals of main() of the 100-task admission comparison
    pxReadyOther,        \* ready lists of the priority levels other than 1: items and pxIndex
    xLastSwitchedIn,     \* per level: the task last switched in from its ready list, if still on it
    xFreeBytesRemaining, \* room left on the kernel heap, counted in tasks (TCB and stack of one task)
    xMallocFailed,       \* TRUE once vApplicationMallocFailedHook has been entered
    xJobOverran          \* TRUE once a tick has found the running EDF task outside its vBusyWait loop

vars == <<xTickCount, xSchedulerRunning, xEDFTaskRegistry, tcbs, pxReadyTasksLists,
          xDelayedTaskList, pxCurrentTCB, body, insertStamp, insertCount, lastCall,
          harness, pxReadyOther, xLastSwitchedIn, xFreeBytesRemaining, xMallocFailed,
          xJobOverran>>

uxEDFTaskCount == Len(xEDFTaskRegistry)

\* Record of a kernel entry: its name, the (C, T, D) it was given, what it
\* returned, whether it ended in a context switch, and uxEDFTaskCount on entry.
edfCall(op, cand, ret, switched) ==
    [op |-> op, cand |-> cand, ret |-> ret, switched |-> switched,
     count |-> uxEDFTaskCount]

\* One registry entry {xWCET, xPeriod, xRelativeDeadline}.
EDFTaskParams(C, T, D) == [xWCET |-> C, xPeriod |-> T, xRelativeDeadline |-> D]

(***************************************************************************)
(* Admission control                                                       *)
(***************************************************************************)

\* The task set an admission test looks at: the registry plus the candidate.
edfCandidateSet(reg, cand) == Append(reg, cand)

\* One term of the fixed-point utilisation: Ci * 10000 / Ti with integer
\* (truncating) division.
edfScaledTerm(e) == (e.xWCET * edfLL_SCALE) \div e.xPeriod

\* Fixed-point utilisation of tasks lo..hi: sum of Ci * 10000 / Ti with
\* integer (truncating) division.  (The range is summed in halves, which
\* keeps the evaluation shallow for a full registry.)
RECURSIVE edfScaledUtilisation(_, _, _)
edfScaledUtilisation(s, lo, hi) ==
    IF lo > hi THEN 0
    ELSE IF lo = hi THEN edfScaledTerm(s[lo])
    ELSE LET mid == (lo + hi) \div 2
         IN  edfScaledUtilisation(s, lo, mid) + edfScaledUtilisation(s, mid + 1, hi)

\* Faulty variant: the bound itself is refused (strict comparison).
prvEDFCheckLLBoundStrict(reg, cand) ==
    LET s == edfCandidateSet(reg, cand)
    IN  edfScaledUtilisation(s, 1, Len(s)) < edfLL_SCALE

\* Liu and Layland bound: pdTRUE iff the scaled utilisation is at most 10000.
prvEDFCheckLLBound(reg, cand) ==
    LET s == edfCandidateSet(reg, cand)
    IN  edfScaledUtilisation(s, 1, Len(s)) <= edfLL_SCALE

\* Demand of one task at time L: (floor((L - Dj) / Tj) + 1) * Cj once its
\* first deadline is not after L, nothing before.
edfTaskDemand(e, L) ==
    IF L >= e.xRelativeDeadline
    THEN (((L - e.xRelativeDeadline) \div e.xPeriod) + 1) * e.xWCET
    ELSE 0

\* Processor demand h(L) of tasks lo..hi (summed in halves).
RECURSIVE edfDemand(_, _, _, _)
edfDemand(s, lo, hi, L) ==
    IF lo > hi THEN 0
    ELSE IF lo = hi THEN edfTaskDemand(s[lo], L)
    ELSE LET mid == (lo + hi) \div 2
         IN  edfDemand(s, lo, mid, L) + edfDemand(s, mid + 1, hi, L)

\* Longest period among tasks lo..hi.
RECURSIVE edfMaxPeriod(_, _, _)
edfMaxPeriod(s, lo, hi) ==
    IF lo > hi THEN 0
    ELSE IF lo = hi THEN s[lo].xPeriod
    ELSE LET mid == (lo + hi) \div 2
             a   == edfMaxPeriod(s, lo, mid)
             b   == edfMaxPeriod(s, mid + 1, hi)
         IN  IF a > b THEN a ELSE b

\* Faulty variant: horizon without the 60 second cap.
edfHorizonNoCap(s) == edfHORIZON_PERIODS * edfMaxPeriod(s, 1, Len(s))

\* Time horizon: 4 x the longest period, capped at 60 seconds of ticks.
edfHorizon(s) ==
    LET h == edfHORIZON_PERIODS * edfMaxPeriod(s, 1, Len(s))
        cap == edfHORIZON_SECONDS * configTICK_RATE_HZ
    IN  IF h < cap THEN h ELSE cap

\* Processor demand analysis: for every task, walk its absolute deadlines
\* L = Di, Di + Ti, ... up to the horizon and fail as soon as the demand
\* at L exceeds L.
prvEDFCheckProcessorDemand(reg, cand) ==
    LET s == edfCandidateSet(reg, cand)
        H == edfHorizon(s)
    IN  \A i \in 1..Len(s) :
            s[i].xRelativeDeadline <= H =>
                \A j \in 0..((H - s[i].xRelativeDeadline) \div s[i].xPeriod) :
                    LET L == s[i].xRelativeDeadline + j * s[i].xPeriod
                    IN  edfDemand(s, 1, Len(s), L) <= L

\* Faulty variant: the selector always runs the LL bound.
prvEDFAdmissionControlAlwaysLL(reg, cand) == prvEDFCheckLLBound(reg, cand)

\* Dispatch between the two tests: LL bound when every registered task and
\* the candidate have D == T, processor demand analysis otherwise.
prvEDFAdmissionControl(reg, cand) ==
    LET s == edfCandidateSet(reg, cand)
    IN  IF \A i \in 1..Len(s) : s[i].xRelativeDeadline = s[i].xPeriod
        THEN prvEDFCheckLLBound(reg, cand)
        ELSE prvEDFCheckProcessorDemand(reg, cand)

(***************************************************************************)
(* Lists                                                                   *)
(***************************************************************************)

\* Sequence s with element h removed (uxListRemove).
uxListRemove(s, h) == SelectSeq(s, LAMBDA x : x # h)

\* Index before which vListInsert places an item of value v: the walk from
\* the head passes every item whose xItemValue is <= v and stops at the
\* first item of greater value, or at the list end.
vListInsertIndex(t, s, v) ==
    CHOOSE k \in 1..(Len(s) + 1) :
        /\ \A j \in 1..(k - 1) : t[s[j]].xItemValue <= v
        /\ k <= Len(s) => t[s[k]].xItemValue > v

\* vListInsert: sorted insertion by xItemValue, after the items of equal value.
vListInsert(t, s, h) ==
    LET k == vListInsertIndex(t, s, t[h].xItemValue)
    IN  SubSeq(s, 1, k - 1) \o <<h>> \o SubSeq(s, k, Len(s))

\* listINSERT_END: unsorted append.
listINSERT_END(t, s, h) == Append(s, h)

\* Faulty variant: EDF tasks are appended like any other task.
prvAddTaskToReadyListAppend(t, s, h) == listINSERT_END(t, s, h)

\* prvAddTaskToReadyList: EDF tasks are inserted sorted by xItemValue (the
\* absolute deadline), other tasks are appended.
prvAddTaskToReadyList(t, s, h) ==
    IF t[h].xIsEDFTask THEN vListInsert(t, s, h) ELSE listINSERT_END(t, s, h)

\* Faulty variant: selection takes the last entry of the list.
taskSELECT_HIGHEST_PRIORITY_TASK_Tail(s) ==
    IF s = <<>> THEN IdleTask ELSE s[Len(s)]

\* taskSELECT_HIGHEST_PRIORITY_TASK: with a non-empty priority-1 list the
\* head entry is taken (listGET_HEAD_ENTRY); otherwise the idle task runs.
taskSELECT_HIGHEST_PRIORITY_TASK(s) ==
    IF s = <<>> THEN IdleTask ELSE Head(s)

(***************************************************************************)
(* Dispatcher: preemption decision                                         *)
(***************************************************************************)

uxPriorityOf(t, h) == IF h = IdleTask THEN 0 ELSE t[h].uxPriority

\* Faulty variant: a waking job with an equal deadline also preempts.
edfPreemptionRequiredNonStrict(t, waking, running) ==
    IF running # IdleTask /\ t[waking].xIsEDFTask /\ t[running].xIsEDFTask
    THEN t[waking].xAbsoluteDeadline <= t[running].xAbsoluteDeadline
    ELSE uxPriorityOf(t, waking) > uxPriorityOf(t, running)

\* Faulty variant: the deadline comparison is the wrong way round; a waking
\* EDF task asks for a switch when its deadline is the later one.
edfPreemptionRequiredReversed(t, waking, running) ==
    IF running # IdleTask /\ t[waking].xIsEDFTask /\ t[running].xIsEDFTask
    THEN t[waking].xAbsoluteDeadline > t[running].xAbsoluteDeadline
    ELSE uxPriorityOf(t, waking) > uxPriorityOf(t, running)

\* Faulty variant: only a pair of EDF tasks is compared; a task waking
\* while a task of another kind (or the idle task) runs never asks for a
\* switch.
edfPreemptionRequiredEDFPairOnly(t, waking, running) ==
    IF running # IdleTask /\ t[waking].xIsEDFTask /\ t[running].xIsEDFTask
    THEN t[waking].xAbsoluteDeadline < t[running].xAbsoluteDeadline
    ELSE FALSE

\* Faulty variant: the deadlines are compared whenever the running task is
\* a task with a TCB, also when one of the two tasks is not an EDF task.
edfPreemptionRequiredDeadlineOnly(t, waking, running) ==
    IF running # IdleTask
    THEN t[waking].xAbsoluteDeadline < t[running].xAbsoluteDeadline
    ELSE uxPriorityOf(t, waking) > uxPriorityOf(t, running)

\* Both EDF: switch iff the waking task's absolute deadline is earlier.
\* Otherwise the stock priority comparison.
edfPreemptionRequired(t, waking, running) ==
    IF running # IdleTask /\ t[waking].xIsEDFTask /\ t[running].xIsEDFTask
    THEN t[waking].xAbsoluteDeadline < t[running].xAbsoluteDeadline
    ELSE uxPriorityOf(t, waking) > uxPriorityOf(t, running)

(***************************************************************************)
(* Initial state                                                           *)
(***************************************************************************)

\* Priority levels beside the EDF level 1: 0 is the idle level, 2 and 3 are
\* the levels of the Yellow and Green tasks of the LED demo.
OtherLevels == {0, 2, 3}

\* A list after vListInitialise: no items, pxIndex at the end marker
\* (position 0).
xListEmpty == [items |-> <<>>, pxIndex |-> 0]

\* main() of the 100-task comparison before its loop: i = 1, nothing
\* accepted, no rejection seen.
main100Locals ==
    [i |-> 1, iLLAccepted |-> 0, iPDAccepted |-> 0,
     iFirstLLReject |-> -1, iFirstPDReject |-> -1]

NoCall == [op |-> "none", cand |-> <<>>, ret |-> "none", switched |-> FALSE, count |-> 0]

\* The heap of the builds whose runs are documented: it held every task
\* they created.  Here it holds a full registry of tasks and the tasks of
\* the heap specification besides.
edfHeapOfDemo == configMAX_EDF_TASKS + MaxHeapTasks

\* The kernel before any call.
edfInitKernel ==
    /\ xTickCount = 0
    /\ xSchedulerRunning = FALSE
    /\ xEDFTaskRegistry = <<>>
    /\ tcbs = <<>>
    /\ pxReadyTasksLists = <<>>
    /\ xDelayedTaskList = <<>>
    /\ pxCurrentTCB = IdleTask
    /\ body = <<>>
    /\ insertStamp = <<>>
    /\ insertCount = 0
    /\ lastCall = NoCall
    /\ harness = main100Locals
    /\ pxReadyOther = [p \in OtherLevels |-> xListEmpty]
    /\ xLastSwitchedIn = [p \in 0..3 |-> {}]
    /\ xMallocFailed = FALSE
    /\ xJobOverran = FALSE

Init ==
    /\ edfInitKernel
    /\ xFreeBytesRemaining = edfHeapOfDemo

(***************************************************************************)
(* Task creation                                                           *)
(***************************************************************************)

\* Faulty variant: the first deadline and release are counted from tick 0
\* instead of the creation tick.
edfNewTCBFromZero(C, T, D, now) ==
    [ uxPriority         |-> 1,
      xPeriod            |-> T,
      xRelativeDeadline  |-> D,
      xWCET              |-> C,
      xAbsoluteDeadline  |-> D,
      xNextReleaseTime   |-> T,
      xIsEDFTask         |-> TRUE,
      xDeadlineMissCount |-> 0,
      xItemValue         |-> D ]

\* TCB of a new EDF task created at tick now: priority 1, absolute deadline
\* now + D, next release now + T, list item value = absolute deadline.
edfNewTCB(C, T, D, now) ==
    [ uxPriority         |-> 1,
      xPeriod            |-> T,
      xRelativeDeadline  |-> D,
      xWCET              |-> C,
      xAbsoluteDeadline  |-> now + D,
      xNextReleaseTime   |-> now + T,
      xIsEDFTask         |-> TRUE,
      xDeadlineMissCount |-> 0,
      xItemValue         |-> now + D ]

\* Locals of a task body that has not run yet.
edfNewBody == [pc |-> "init", xLastWakeTime |-> 0, xStart |-> 0]

\* Faulty variant: the capacity test lets one task too many through.
edfRegistryFullOffByOne(n) == n > configMAX_EDF_TASKS

\* The capacity test of xTaskCreateEDF.
edfRegistryFull(n) == n >= configMAX_EDF_TASKS

\* What xTaskCreateEDF checks before it allocates anything.
edfCreateAllowed(reg, cand) ==
    /\ ~edfRegistryFull(Len(reg))
    /\ prvEDFAdmissionControl(reg, cand)

\* Faulty variant: the registry entry is written before the admission decision.
edfRegistryAfterRejectAppend(reg, cand) == Append(reg, cand)

\* The registry after a rejected call: untouched.
edfRegistryAfterReject(reg, cand) == reg

\* Faulty variant: a new task is compared by priority only, so that among
\* EDF tasks a creation never asks for a switch.
edfFirstReleasePreemptionPriorityOnly(t, new, running) ==
    uxPriorityOf(t, new) > uxPriorityOf(t, running)

\* The switch decision when a created task becomes ready (its first
\* release): the comparison the tick handler makes for a release.
edfFirstReleasePreemption(t, new, running) ==
    edfPreemptionRequired(t, new, running)

\* prvCreateTask allocates the TCB and the stack of the new task on the
\* heap; TRUE when it hands back a task, FALSE when the heap has no room.
prvCreateTask(free) == free >= 1

\* vApplicationMallocFailedHook(): the kernel enters it when an allocation
\* fails; it prints and loops for ever, so the call that asked for the
\* memory (its arguments are args) never returns and its caller makes no
\* further call.
vApplicationMallocFailedHook(args) ==
    /\ xMallocFailed' = TRUE
    /\ lastCall' = edfCall("vApplicationMallocFailedHook", args, "none", FALSE)
    /\ UNCHANGED <<pxReadyOther, xLastSwitchedIn, harness, xTickCount, xSchedulerRunning, xEDFTaskRegistry, tcbs,
                   pxReadyTasksLists, xDelayedTaskList, pxCurrentTCB, body, insertStamp,
                   insertCount, xFreeBytesRemaining, xJobOverran>>

\* xTaskCreateEDF( pvTaskCode, pcName, usStackDepth, pvParameters, T, D, C, handle ):
\* the capacity test and the admission test, then prvCreateTask; when the
\* heap has no room the allocation ends in vApplicationMallocFailedHook,
\* with nothing registered.  The caller must not be held in that hook.
xTaskCreateEDF(C, T, D) ==
    ~xMallocFailed /\
    LET cand == EDFTaskParams(C, T, D)
        h    == Len(tcbs) + 1
        t2   == Append(tcbs, edfNewTCB(C, T, D, xTickCount))
        rdy  == prvAddTaskToReadyList(t2, pxReadyTasksLists, h)
        sw   == xSchedulerRunning /\ edfFirstReleasePreemption(t2, h, pxCurrentTCB)
    IN  IF ~edfCreateAllowed(xEDFTaskRegistry, cand)
        THEN /\ xEDFTaskRegistry' = edfRegistryAfterReject(xEDFTaskRegistry, cand)
             /\ lastCall' = edfCall("xTaskCreateEDF", <<C, T, D>>, errCOULD_NOT_ALLOCATE_REQUIRED_MEMORY, FALSE)
             /\ xJobOverran' = xJobOverran
             /\ xFreeBytesRemaining' = xFreeBytesRemaining
             /\ xMallocFailed' = xMallocFailed
             /\ UNCHANGED <<pxReadyOther, xLastSwitchedIn, harness, xTickCount, xSchedulerRunning, tcbs, pxReadyTasksLists,
                            xDelayedTaskList, pxCurrentTCB, body, insertStamp,
                            insertCount>>
        ELSE IF ~prvCreateTask(xFreeBytesRemaining)
        THEN vApplicationMallocFailedHook(<<C, T, D>>)
        ELSE /\ xEDFTaskRegistry' = Append(xEDFTaskRegistry, cand)
             /\ tcbs' = t2
             /\ body' = Append(body, edfNewBody)
             /\ pxReadyTasksLists' = rdy
             /\ insertStamp' = Append(insertStamp, insertCount + 1)
             /\ insertCount' = insertCount + 1
             /\ pxCurrentTCB' = IF sw THEN taskSELECT_HIGHEST_PRIORITY_TASK(rdy)
                                ELSE pxCurrentTCB
             /\ lastCall' = edfCall("xTaskCreateEDF", <<C, T, D>>, pdPASS, sw)
             /\ xJobOverran' = xJobOverran
             /\ xFreeBytesRemaining' = xFreeBytesRemaining - 1
             /\ xMallocFailed' = xMallocFailed
             /\ UNCHANGED <<pxReadyOther, xLastSwitchedIn, harness, xTickCount, xSchedulerRunning, xDelayedTaskList>>

(***************************************************************************)
(* Scheduler start                                                         *)
(***************************************************************************)

vTaskStartScheduler ==
    /\ ~xMallocFailed
    /\ ~xSchedulerRunning
    /\ xSchedulerRunning' = TRUE
    /\ pxCurrentTCB' = taskSELECT_HIGHEST_PRIORITY_TASK(pxReadyTasksLists)
    /\ lastCall' = edfCall("vTaskStartScheduler", <<>>, "none", TRUE)
    /\ xJobOverran' = xJobOverran
    /\ xFreeBytesRemaining' = xFreeBytesRemaining
    /\ xMallocFailed' = xMallocFailed
    /\ UNCHANGED <<pxReadyOther, xLastSwitchedIn, harness, xTickCount, xEDFTaskRegistry, tcbs, pxReadyTasksLists,
                   xDelayedTaskList, body, insertStamp, insertCount>>

(***************************************************************************)
(* Tick handler: periodic releases, preemption check, deadline misses      *)
(***************************************************************************)

\* Faulty variant: the list item value is written before the deadline is
\* advanced, so the task is inserted under the deadline of the job before.
edfReleaseUpdateStaleKey(tcb) ==
    IF tcb.xIsEDFTask
    THEN [tcb EXCEPT !.xAbsoluteDeadline = tcb.xNextReleaseTime + tcb.xRelativeDeadline,
                     !.xNextReleaseTime  = tcb.xNextReleaseTime + tcb.xPeriod,
                     !.xItemValue        = tcb.xAbsoluteDeadline]
    ELSE tcb

\* Timing fields of an EDF task leaving the delayed list: the absolute
\* deadline becomes xNextReleaseTime + D, the next release advances by T and
\* the list item value becomes the new absolute deadline.
edfReleaseUpdate(tcb) ==
    IF tcb.xIsEDFTask
    THEN [tcb EXCEPT !.xAbsoluteDeadline = tcb.xNextReleaseTime + tcb.xRelativeDeadline,
                     !.xNextReleaseTime  = tcb.xNextReleaseTime + tcb.xPeriod,
                     !.xItemValue        = tcb.xNextReleaseTime + tcb.xRelativeDeadline]
    ELSE tcb

\* Faulty variant: a woken task is put on the ready list but is left on
\* the delayed list as well.
RECURSIVE edfWakeDelayedKeep(_, _, _, _, _, _, _)
edfWakeDelayedKeep(t, rdy, dly, now, sw, stamps, cnt) ==
    IF dly = <<>> \/ t[Head(dly)].xItemValue > now
    THEN [t |-> t, rdy |-> rdy, dly |-> dly, sw |-> sw, stamps |-> stamps, cnt |-> cnt]
    ELSE LET h  == Head(dly)
             t1 == [t EXCEPT ![h] = edfReleaseUpdate(t[h])]
             r  == edfWakeDelayedKeep(t1,
                                      prvAddTaskToReadyList(t1, rdy, h),
                                      Tail(dly),
                                      now,
                                      sw \/ edfPreemptionRequired(t1, h, pxCurrentTCB),
                                      [stamps EXCEPT ![h] = cnt + 1],
                                      cnt + 1)
         IN  [r EXCEPT !.dly = <<h>> \o r.dly]

\* The loop of xTaskIncrementTick over the delayed list: every task whose
\* wake time has arrived is removed, refreshed, put on the ready list and
\* compared with the running task.
RECURSIVE edfWakeDelayed(_, _, _, _, _, _, _)
edfWakeDelayed(t, rdy, dly, now, sw, stamps, cnt) ==
    IF dly = <<>> \/ t[Head(dly)].xItemValue > now
    THEN [t |-> t, rdy |-> rdy, dly |-> dly, sw |-> sw, stamps |-> stamps, cnt |-> cnt]
    ELSE LET h  == Head(dly)
             t1 == [t EXCEPT ![h] = edfReleaseUpdate(t[h])]
         IN  edfWakeDelayed(t1,
                            prvAddTaskToReadyList(t1, rdy, h),
                            Tail(dly),
                            now,
                            sw \/ edfPreemptionRequired(t1, h, pxCurrentTCB),
                            [stamps EXCEPT ![h] = cnt + 1],
                            cnt + 1)

\* Faulty variant: a late job is given up; its task's deadline and sort key
\* move on by one period when the miss is counted.
edfCountMissesSkipJob(t, rdy, now) ==
    [h \in DOMAIN t |->
        IF /\ \E k \in 1..Len(rdy) : rdy[k] = h
           /\ t[h].xIsEDFTask
           /\ now > t[h].xAbsoluteDeadline
        THEN [t[h] EXCEPT !.xDeadlineMissCount = t[h].xDeadlineMissCount + 1,
                          !.xAbsoluteDeadline  = t[h].xAbsoluteDeadline + t[h].xPeriod,
                          !.xItemValue         = t[h].xAbsoluteDeadline + t[h].xPeriod]
        ELSE t[h]]

\* Faulty variant: a job is counted as late already at the tick equal to
\* its absolute deadline.
edfCountMissesNonStrict(t, rdy, now) ==
    [h \in DOMAIN t |->
        IF /\ \E k \in 1..Len(rdy) : rdy[k] = h
           /\ t[h].xIsEDFTask
           /\ now >= t[h].xAbsoluteDeadline
        THEN [t[h] EXCEPT !.xDeadlineMissCount = t[h].xDeadlineMissCount + 1]
        ELSE t[h]]

\* Deadline-miss detection: the counter of every ready EDF task whose
\* absolute deadline the current tick exceeds is incremented.
edfCountMisses(t, rdy, now) ==
    [h \in DOMAIN t |->
        IF /\ \E k \in 1..Len(rdy) : rdy[k] = h
           /\ t[h].xIsEDFTask
           /\ now > t[h].xAbsoluteDeadline
        THEN [t[h] EXCEPT !.xDeadlineMissCount = t[h].xDeadlineMissCount + 1]
        ELSE t[h]]

\* The running EDF task is inside the loop of vBusyWait with less than xWCET
\* ticks gone since xStart (or the running task is no EDF task).  A tick
\* taken elsewhere in its code makes the job last longer than xWCET ticks.
edfRunningTaskSpins ==
    IF pxCurrentTCB = IdleTask THEN TRUE
    ELSE IF ~tcbs[pxCurrentTCB].xIsEDFTask THEN TRUE
    ELSE /\ body[pxCurrentTCB].pc = "busy"
         /\ xTickCount - body[pxCurrentTCB].xStart < tcbs[pxCurrentTCB].xWCET

\* The tick interrupt is asynchronous: it is taken at any point of the
\* running task's code.  MaxTick caps the counter.
xTaskIncrementTick ==
    /\ xSchedulerRunning
    /\ xTickCount < MaxTick
    /\ LET now == xTickCount + 1
           w   == edfWakeDelayed(tcbs, pxReadyTasksLists, xDelayedTaskList, now,
                                 FALSE, insertStamp, insertCount)
       IN  /\ xTickCount' = now
           /\ tcbs' = edfCountMisses(w.t, w.rdy, now)
           /\ pxReadyTasksLists' = w.rdy
           /\ xDelayedTaskList' = w.dly
           /\ insertStamp' = w.stamps
           /\ insertCount' = w.cnt
           /\ pxCurrentTCB' = IF w.sw THEN taskSELECT_HIGHEST_PRIORITY_TASK(w.rdy)
                              ELSE pxCurrentTCB
           /\ lastCall' = edfCall("xTaskIncrementTick", <<>>, "none", w.sw)
           /\ xJobOverran' = (xJobOverran \/ ~edfRunningTaskSpins)
           /\ xFreeBytesRemaining' = xFreeBytesRemaining
           /\ xMallocFailed' = xMallocFailed
    /\ UNCHANGED <<pxReadyOther, xLastSwitchedIn, harness, xSchedulerRunning, xEDFTaskRegistry, body>>

(***************************************************************************)
(* The periodic task body (vEDFTask) and xTaskDelayUntil                   *)
(***************************************************************************)

\* First instructions of vEDFTask, up to xLastWakeTime = xTaskGetTickCount().
\* The first vBusyWait reads the tick count on its own, later.
vEDFTaskStart ==
    /\ xSchedulerRunning
    /\ pxCurrentTCB # IdleTask
    /\ body[pxCurrentTCB].pc = "init"
    /\ body' = [body EXCEPT ![pxCurrentTCB].pc = "started",
                            ![pxCurrentTCB].xLastWakeTime = xTickCount]
    /\ lastCall' = edfCall("vEDFTask", <<>>, "none", FALSE)
    /\ xJobOverran' = xJobOverran
    /\ xFreeBytesRemaining' = xFreeBytesRemaining
    /\ xMallocFailed' = xMallocFailed
    /\ UNCHANGED <<pxReadyOther, xLastSwitchedIn, harness, xTickCount, xSchedulerRunning, xEDFTaskRegistry, tcbs,
                   pxReadyTasksLists, xDelayedTaskList, pxCurrentTCB, insertStamp,
                   insertCount>>

\* The loop of vBusyWait has seen xWCET ticks pass since xStart; the task
\* calls xTaskDelayUntil( &xLastWakeTime, xPeriod ).  The wake time is
\* xLastWakeTime + xPeriod; the task blocks only if that is in the future,
\* otherwise the call returns at once.
xTaskDelayUntil ==
    /\ xSchedulerRunning
    /\ pxCurrentTCB # IdleTask
    /\ body[pxCurrentTCB].pc = "busy"
    /\ xTickCount - body[pxCurrentTCB].xStart >= tcbs[pxCurrentTCB].xWCET
    /\ LET h           == pxCurrentTCB
           xTimeToWake == body[h].xLastWakeTime + tcbs[h].xPeriod
           t1          == [tcbs EXCEPT ![h].xItemValue = xTimeToWake]
           rdy         == uxListRemove(pxReadyTasksLists, h)
       IN  IF xTimeToWake > xTickCount
           THEN /\ body' = [body EXCEPT ![h] =
                               [pc |-> "delayed", xLastWakeTime |-> xTimeToWake,
                                xStart |-> body[h].xStart]]
                /\ tcbs' = t1
                /\ pxReadyTasksLists' = rdy
                /\ xDelayedTaskList' = vListInsert(t1, xDelayedTaskList, h)
                /\ pxCurrentTCB' = taskSELECT_HIGHEST_PRIORITY_TASK(rdy)
                /\ lastCall' = edfCall("xTaskDelayUntil", <<>>, "none", TRUE)
                /\ xJobOverran' = xJobOverran
                /\ xFreeBytesRemaining' = xFreeBytesRemaining
                /\ xMallocFailed' = xMallocFailed
           ELSE /\ body' = [body EXCEPT ![h] =
                               [pc |-> "returned", xLastWakeTime |-> xTimeToWake,
                                xStart |-> body[h].xStart]]
                /\ lastCall' = edfCall("xTaskDelayUntil", <<>>, "none", FALSE)
                /\ xJobOverran' = xJobOverran
                /\ xFreeBytesRemaining' = xFreeBytesRemaining
                /\ xMallocFailed' = xMallocFailed
                /\ UNCHANGED <<tcbs, pxReadyTasksLists, xDelayedTaskList, pxCurrentTCB>>
    /\ UNCHANGED <<pxReadyOther, xLastSwitchedIn, harness, xTickCount, xSchedulerRunning, xEDFTaskRegistry, insertStamp,
                   insertCount>>

\* The task calls vBusyWait, on its first run or back from xTaskDelayUntil:
\* xStart = xTaskGetTickCount(), then the loop spins.
vBusyWait ==
    /\ xSchedulerRunning
    /\ pxCurrentTCB # IdleTask
    /\ body[pxCurrentTCB].pc \in {"started", "delayed", "returned"}
    /\ body' = [body EXCEPT ![pxCurrentTCB].pc = "busy",
                            ![pxCurrentTCB].xStart = xTickCount]
    /\ lastCall' = edfCall("vBusyWait", <<>>, "none", FALSE)
    /\ xJobOverran' = xJobOverran
    /\ xFreeBytesRemaining' = xFreeBytesRemaining
    /\ xMallocFailed' = xMallocFailed
    /\ UNCHANGED <<pxReadyOther, xLastSwitchedIn, harness, xTickCount, xSchedulerRunning, xEDFTaskRegistry, tcbs,
                   pxReadyTasksLists, xDelayedTaskList, pxCurrentTCB, insertStamp,
                   insertCount>>

(***************************************************************************)
(* Scheduling specification                                                *)
(***************************************************************************)

\* The xTaskCreateEDF calls of main() of main_edf.c, (C, T, D) in ticks of
\* 1 ms, in the order main() makes them: Red, Yellow, Green and the
\* rejection test.
DemoProgram ==
    << <<80, 400, 200>>, <<150, 800, 400>>, <<400, 1600, 1000>>, <<150, 200, 200>> >>

\* Other applications of xTaskCreateEDF: task sets with periods of a few
\* ticks, so that several periods of every task fit below MaxTick.  The last
\* call of the second set is refused.  The first set is Red, Yellow and
\* Green of main_edf.c with their times divided by 100 and rounded up.
SmallPrograms ==
    { << <<1, 4, 2>>, <<2, 8, 4>>, <<4, 16, 10>> >>,
      << <<1, 2, 2>>, <<2, 4, 3>> >>,
      << <<1, 2, 2>>, <<1, 2, 2>>, <<1, 2, 2>> >>,
      << <<1, 2, 2>>, <<1, 3, 3>> >>,
      << <<1, 3, 3>>, <<1, 5, 5>>, <<1, 3, 3>> >> }

\* The task with TCB t was created by the call c.
edfCreatedByCall(t, c) ==
    /\ t.xWCET = c[1]
    /\ t.xPeriod = c[2]
    /\ t.xRelativeDeadline = c[3]

\* The call c is the next one of an application whose earlier calls created
\* the tasks that exist.
edfNextCall(progs, c) ==
    \E prog \in progs :
        /\ Len(tcbs) < Len(prog)
        /\ \A k \in 1..Len(tcbs) : edfCreatedByCall(tcbs[k], prog[k])
        /\ c = prog[Len(tcbs) + 1]

\* The parameters of the calls of a set of applications.
edfCallsOf(progs) == UNION { { prog[k] : k \in 1..Len(prog) } : prog \in progs }

\* The (C, T, D) that main() of main_edf.c passes to xTaskCreateEDF.
Cands == edfCallsOf({DemoProgram})

\* main() of main_edf.c has made its last xTaskCreateEDF call.
edfDemoCallsMade ==
    /\ lastCall.op = "xTaskCreateEDF"
    /\ lastCall.cand = DemoProgram[Len(DemoProgram)]

\* main() of main_edf.c makes its next xTaskCreateEDF call.
CreateTask ==
    /\ ~xSchedulerRunning
    /\ ~edfDemoCallsMade
    /\ \E c \in Cands :
          /\ edfNextCall({DemoProgram}, c)
          /\ xTaskCreateEDF(c[1], c[2], c[3])

\* main() of main_edf.c starts the scheduler after its last call.
StartDemo ==
    /\ edfDemoCallsMade
    /\ vTaskStartScheduler

\* Another application makes its next xTaskCreateEDF call, before or after
\* the scheduler has started.
CreateSmall ==
    \E c \in edfCallsOf(SmallPrograms) :
        /\ edfNextCall(SmallPrograms, c)
        /\ xTaskCreateEDF(c[1], c[2], c[3])

\* Another application starts the scheduler, before or after its creation
\* calls.
StartSmall ==
    /\ \E prog \in SmallPrograms :
          /\ Len(tcbs) <= Len(prog)
          /\ \A k \in 1..Len(tcbs) : edfCreatedByCall(tcbs[k], prog[k])
    /\ vTaskStartScheduler

Next ==
    \/ CreateTask
    \/ StartDemo
    \/ CreateSmall
    \/ StartSmall
    \/ xTaskIncrementTick
    \/ vEDFTaskStart
    \/ xTaskDelayUntil
    \/ vBusyWait

Spec == Init /\ [][Next]_vars

(***************************************************************************)
(* Admission specification: only xTaskCreateEDF is called, before the      *)
(* scheduler starts, with parameters in ticks of 1 ms.                     *)
(***************************************************************************)

\* Parameters (C, T, D) offered to xTaskCreateEDF: the four calls of main()
\* of main_edf.c, then seven sets with periods of seconds, then three that
\* violate 1 <= C <= D <= T.
AdmCands ==
    { <<80, 400, 200>>, <<150, 800, 400>>, <<400, 1600, 1000>>, <<150, 200, 200>>,
      <<2000, 3000, 3000>>, <<1000, 3000, 3000>>, <<1, 20000, 20000>>,
      <<1000, 5000, 5000>>, <<1000, 6000, 4000>>, <<4000, 7000, 7000>>,
      <<9000, 20000, 19000>>,
      <<1000, 2000, 3000>>, <<0, 3000, 3000>>, <<2000, 3000, 1000>> }

\* Calls are made until the registry holds MaxAdmTasks entries.
CreateAdm ==
    /\ uxEDFTaskCount < MaxAdmTasks
    /\ \E c \in AdmCands : xTaskCreateEDF(c[1], c[2], c[3])

NextAdm == CreateAdm

SpecAdm == Init /\ [][NextAdm]_vars

(***************************************************************************)
(* Capacity specification: the state after n identical tasks have been     *)
(* created at tick 0, n close to configMAX_EDF_TASKS, then more creations.  *)
(***************************************************************************)

CapBase == <<1, 1000, 1000>>

CapCands ==
    { <<1, 1000, 1000>>, <<5, 1000, 1000>>, <<1, 1000, 500>>, <<2, 2000, 2000>>,
      <<9000, 10000, 10000>>, <<600, 1000, 500>> }

InitCap ==
    \E n \in (configMAX_EDF_TASKS - CapSlack)..configMAX_EDF_TASKS :
        /\ xTickCount = 0
        /\ xSchedulerRunning = FALSE
        /\ xEDFTaskRegistry =
               [k \in 1..n |-> EDFTaskParams(CapBase[1], CapBase[2], CapBase[3])]
        /\ tcbs = [k \in 1..n |-> edfNewTCB(CapBase[1], CapBase[2], CapBase[3], 0)]
        /\ pxReadyTasksLists = [k \in 1..n |-> k]
        /\ xDelayedTaskList = <<>>
        /\ pxCurrentTCB = IdleTask
        /\ body = [k \in 1..n |-> edfNewBody]
        /\ insertStamp = [k \in 1..n |-> k]
        /\ insertCount = n
        /\ lastCall = [op |-> "xTaskCreateEDF", cand |-> CapBase, ret |-> pdPASS,
                       switched |-> FALSE, count |-> n - 1]
        /\ harness = main100Locals
        /\ pxReadyOther = [p \in OtherLevels |-> xListEmpty]
        /\ xLastSwitchedIn = [p \in 0..3 |-> {}]
        /\ xFreeBytesRemaining = edfHeapOfDemo - n
        /\ xMallocFailed = FALSE
        /\ xJobOverran = FALSE

CreateCap == \E c \in CapCands : xTaskCreateEDF(c[1], c[2], c[3])

NextCap == CreateCap

SpecCap == InitCap /\ [][NextCap]_vars

(***************************************************************************)
(* The admission test wrapper and the 100-task comparison                  *)
(***************************************************************************)

\* Faulty variant: the wrapper keeps its candidate in the last slot in use
\* and overwrites what that slot held.
edfRegistryAfterTestOverwrite(reg, cand) ==
    IF reg = <<>> THEN <<cand>> ELSE [reg EXCEPT ![Len(reg)] = cand]

\* The registry after xEDFTestAdmission: the candidate is recorded, so that
\* the next call is judged against it (the comparison runs "incrementally").
edfRegistryAfterTest(reg, cand) ==
    IF edfRegistryFull(Len(reg)) THEN reg ELSE Append(reg, cand)

\* xEDFTestAdmission( C, T, D, &xLLResult, &xPDResult ): runs both tests on
\* registry plus candidate and hands back both results; no task is created.
xEDFTestAdmission(C, T, D) ==
    ~xMallocFailed /\
    LET cand == EDFTaskParams(C, T, D)
        ll   == prvEDFCheckLLBound(xEDFTaskRegistry, cand)
        pd   == prvEDFCheckProcessorDemand(xEDFTaskRegistry, cand)
    IN  /\ xEDFTaskRegistry' = edfRegistryAfterTest(xEDFTaskRegistry, cand)
        /\ lastCall' = edfCall("xEDFTestAdmission", <<C, T, D>>, <<ll, pd>>, FALSE)
        /\ xJobOverran' = xJobOverran
        /\ xFreeBytesRemaining' = xFreeBytesRemaining
        /\ xMallocFailed' = xMallocFailed
        /\ UNCHANGED <<xTickCount, xSchedulerRunning, tcbs, pxReadyTasksLists,
                       xDelayedTaskList, pxCurrentTCB, body, insertStamp,
                       insertCount, pxReadyOther, xLastSwitchedIn>>

\* Parameters (C, T, D) offered to xEDFTestAdmission: candidates 1, 2 and
\* 100 of the loop of main_edf_100test.c, and those of AdmCands.
TestCands == { <<5, 250, 30>>, <<5, 250, 35>>, <<5, 250, 525>> } \cup AdmCands

\* The wrapper called by an application, until the registry holds
\* MaxAdmTasks entries.
TestAdm ==
    /\ uxEDFTaskCount < MaxAdmTasks
    /\ \E c \in TestCands : xEDFTestAdmission(c[1], c[2], c[3])
    /\ UNCHANGED harness

NextTest == TestAdm

SpecTest == Init /\ [][NextTest]_vars

\* Creation and the wrapper on a heap that may run out: the heap has room
\* for 0 to MaxHeapTasks tasks when the application makes its first call.
InitHeap ==
    /\ edfInitKernel
    /\ xFreeBytesRemaining \in 0..MaxHeapTasks

NextHeap ==
    \/ CreateAdm
    \/ TestAdm

SpecHeap == InitHeap /\ [][NextHeap]_vars

\* Creation, admission tests and the running system together: an
\* application creates its tasks in order, before or after the scheduler
\* has started, and calls the wrapper in between.
RegPrograms ==
    { << <<1, 2, 2>>, <<2, 4, 3>> >> }

\* Parameters (C, T, D) offered to xEDFTestAdmission beside running tasks:
\* the first candidate of main_edf_100test.c and one with a short period.
RegCands == { <<5, 250, 30>>, <<2, 4, 3>> }

CreateReg ==
    \E c \in edfCallsOf(RegPrograms) :
        /\ edfNextCall(RegPrograms, c)
        /\ xTaskCreateEDF(c[1], c[2], c[3])

TestReg ==
    /\ uxEDFTaskCount < MaxTasks
    /\ \E c \in RegCands : xEDFTestAdmission(c[1], c[2], c[3])
    /\ UNCHANGED harness

NextReg ==
    \/ CreateReg
    \/ TestReg
    \/ vTaskStartScheduler
    \/ xTaskIncrementTick
    \/ vEDFTaskStart
    \/ xTaskDelayUntil
    \/ vBusyWait

SpecReg == Init /\ [][NextReg]_vars

\* Parameters of main_edf_100test.c, in ticks of 1 ms.
TEST_WCET == 5
TEST_PERIOD == 250
BASE_DEADLINE == 30
NUM_TASKS == 100

\* One pass of the loop of main(): task i has D = BASE_DEADLINE + (i-1)*5;
\* the results update the accepted / first-reject bookkeeping.
main100Step ==
    /\ harness.i <= NUM_TASKS
    /\ xEDFTestAdmission(TEST_WCET, TEST_PERIOD, BASE_DEADLINE + ((harness.i - 1) * 5))
    /\ LET i         == harness.i
           xLLResult == lastCall'.ret[1]
           xPDResult == lastCall'.ret[2]
       IN  harness' =
               [i              |-> i + 1,
                iLLAccepted    |-> IF xLLResult THEN i ELSE harness.iLLAccepted,
                iFirstLLReject |-> IF ~xLLResult /\ harness.iFirstLLReject < 0
                                   THEN i ELSE harness.iFirstLLReject,
                iPDAccepted    |-> IF xPDResult THEN i ELSE harness.iPDAccepted,
                iFirstPDReject |-> IF ~xPDResult /\ harness.iFirstPDReject < 0
                                   THEN i ELSE harness.iFirstPDReject]

\* main() after the loop and the printout: vTaskStartScheduler.  No task
\* has been created, so the idle task runs.
main100Start ==
    /\ harness.i > NUM_TASKS
    /\ vTaskStartScheduler

NextMain100 ==
    \/ main100Step
    \/ main100Start
    \/ xTaskIncrementTick

SpecMain100 == Init /\ [][NextMain100]_vars

(***************************************************************************)
(* Single-task specification: one EDF task, created before or after the    *)
(* scheduler starts, runs the vEDFTask body.                               *)
(***************************************************************************)

\* Parameters (C, T, D) of the one task; the first three have C == T == D,
\* the last is Red of main_edf.c.
SingleCands ==
    { <<1, 1, 1>>, <<2, 2, 2>>, <<3, 3, 3>>, <<1, 2, 2>>, <<80, 400, 200>> }

CreateSingle ==
    /\ uxEDFTaskCount = 0
    /\ \E c \in SingleCands : xTaskCreateEDF(c[1], c[2], c[3])

NextSingle ==
    \/ CreateSingle
    \/ vTaskStartScheduler
    \/ xTaskIncrementTick
    \/ vEDFTaskStart
    \/ xTaskDelayUntil
    \/ vBusyWait

SpecSingle == Init /\ [][NextSingle]_vars

(***************************************************************************)
(* Ready-list specification: EDF tasks and ordinary priority-1 tasks are   *)
(* created in any order before the scheduler starts.                       *)
(***************************************************************************)

\* TCB of a task created with xTaskCreate at priority 1: not an EDF task, no
\* EDF timing fields; v is the value its state list item holds.
prvNewTCB(v) ==
    [ uxPriority         |-> 1,
      xPeriod            |-> 0,
      xRelativeDeadline  |-> 0,
      xWCET              |-> 0,
      xAbsoluteDeadline  |-> 0,
      xNextReleaseTime   |-> 0,
      xIsEDFTask         |-> FALSE,
      xDeadlineMissCount |-> 0,
      xItemValue         |-> v ]

\* xTaskCreate( pvTaskCode, pcName, usStackDepth, pvParameters, 1, handle ):
\* no admission, no registry entry; the task goes to the priority-1 ready
\* list through prvAddTaskToReadyList.
xTaskCreate(v) ==
    ~xMallocFailed /\
    LET h   == Len(tcbs) + 1
        t2  == Append(tcbs, prvNewTCB(v))
        rdy == prvAddTaskToReadyList(t2, pxReadyTasksLists, h)
        sw  == xSchedulerRunning /\ edfPreemptionRequired(t2, h, pxCurrentTCB)
    IN  IF ~prvCreateTask(xFreeBytesRemaining)
        THEN vApplicationMallocFailedHook(<<v>>)
        ELSE /\ tcbs' = t2
             /\ body' = Append(body, edfNewBody)
             /\ pxReadyTasksLists' = rdy
             /\ insertStamp' = Append(insertStamp, insertCount + 1)
             /\ insertCount' = insertCount + 1
             /\ pxCurrentTCB' = IF sw THEN taskSELECT_HIGHEST_PRIORITY_TASK(rdy)
                                ELSE pxCurrentTCB
             /\ lastCall' = edfCall("xTaskCreate", <<v>>, pdPASS, sw)
             /\ xJobOverran' = xJobOverran
             /\ xFreeBytesRemaining' = xFreeBytesRemaining - 1
             /\ xMallocFailed' = xMallocFailed
             /\ UNCHANGED <<pxReadyOther, xLastSwitchedIn, harness, xTickCount, xSchedulerRunning, xEDFTaskRegistry,
                            xDelayedTaskList>>

\* Candidate parameters (C, T, D) of the EDF tasks.
ListCands ==
    { <<1, 20, 2>>, <<1, 20, 3>>, <<1, 20, 5>>, <<1, 9, 9>> }

\* State list item values of the ordinary tasks.
ListItemValues == { 0, 3, 9 }

CreateListEDF ==
    /\ Len(tcbs) < MaxListTasks
    /\ \E c \in ListCands : xTaskCreateEDF(c[1], c[2], c[3])

CreateListPlain ==
    /\ Len(tcbs) < MaxListTasks
    /\ \E v \in ListItemValues : xTaskCreate(v)

NextList ==
    \/ CreateListEDF
    \/ CreateListPlain

SpecList == Init /\ [][NextList]_vars

(***************************************************************************)
(* Mixed system: EDF tasks together with ordinary tasks at the priorities  *)
(* 0 to 3, each level with its own ready list.                             *)
(***************************************************************************)

\* Last tick the mixed specification simulates.
MaxMixedTick == 5

\* listGET_OWNER_OF_NEXT_ENTRY: pxIndex moves on to the next item, stepping
\* over the end marker, and the owner of that item is returned.
listGET_OWNER_OF_NEXT_ENTRY(l) ==
    LET k == IF l.pxIndex >= Len(l.items) THEN 1 ELSE l.pxIndex + 1
    IN  [owner |-> l.items[k], list |-> [l EXCEPT !.pxIndex = k]]

\* listINSERT_END on a list with its pxIndex: the item goes in just before
\* the item pxIndex points to, so that a walk from pxIndex reaches it last.
listINSERT_END_Indexed(l, h) ==
    IF l.pxIndex = 0
    THEN [l EXCEPT !.items = Append(@, h)]
    ELSE [items   |-> SubSeq(l.items, 1, l.pxIndex - 1) \o <<h>>
                          \o SubSeq(l.items, l.pxIndex, Len(l.items)),
          pxIndex |-> l.pxIndex + 1]

\* Position of h in the sequence s, 0 if it is not there.
listPositionOf(s, h) ==
    IF \E k \in 1..Len(s) : s[k] = h
    THEN CHOOSE k \in 1..Len(s) : s[k] = h
    ELSE 0

\* uxListRemove on a list with its pxIndex: when pxIndex points to the item
\* removed it steps back to the item before.
uxListRemoveIndexed(l, h) ==
    LET j == listPositionOf(l.items, h)
    IN  IF j = 0 THEN l
        ELSE [items   |-> uxListRemove(l.items, h),
              pxIndex |-> IF j <= l.pxIndex THEN l.pxIndex - 1 ELSE l.pxIndex]

\* uxTopReadyPriority: the highest level whose ready list is not empty.
uxTopReadyPriority(rdy1, other) ==
    IF other[3].items # <<>> THEN 3
    ELSE IF other[2].items # <<>> THEN 2
    ELSE IF rdy1 # <<>> THEN 1
    ELSE 0

\* vTaskSwitchContext with taskSELECT_HIGHEST_PRIORITY_TASK over all levels:
\* with uxTopPriority > 0 the head entry of the top list is taken
\* (listGET_HEAD_ENTRY), at level 0 the stock listGET_OWNER_OF_NEXT_ENTRY.
vTaskSwitchContext(rdy1, other) ==
    LET uxTopPriority == uxTopReadyPriority(rdy1, other)
    IN  IF uxTopPriority = 1
        THEN [cur |-> taskSELECT_HIGHEST_PRIORITY_TASK(rdy1), other |-> other]
        ELSE IF uxTopPriority > 0
        THEN [cur |-> Head(other[uxTopPriority].items), other |-> other]
        ELSE LET r == listGET_OWNER_OF_NEXT_ENTRY(other[0])
             IN  [cur |-> r.owner, other |-> [other EXCEPT ![0] = r.list]]

\* prvAddTaskToReadyList for a task of any level: the list is the one of the
\* task's priority; EDF tasks are inserted sorted, the others at the end.
prvAddTaskToReadyListOfLevel(t, rdy1, other, h) ==
    IF uxPriorityOf(t, h) = 1
    THEN [rdy1 |-> prvAddTaskToReadyList(t, rdy1, h), other |-> other]
    ELSE [rdy1  |-> rdy1,
          other |-> [other EXCEPT ![uxPriorityOf(t, h)] = listINSERT_END_Indexed(@, h)]]

\* A task leaves the ready list of its level.
prvRemoveFromReadyListOfLevel(t, rdy1, other, h) ==
    IF uxPriorityOf(t, h) = 1
    THEN [rdy1 |-> uxListRemove(rdy1, h), other |-> other]
    ELSE [rdy1  |-> rdy1,
          other |-> [other EXCEPT ![uxPriorityOf(t, h)] = uxListRemoveIndexed(@, h)]]

\* Bookkeeping of the task last switched in per level: h is switched in.
edfNoteSwitchedIn(last, t, h) == [last EXCEPT ![uxPriorityOf(t, h)] = {h}]

\* Bookkeeping of the task last switched in per level: h leaves its list.
edfNoteRemoved(last, h) == [p \in DOMAIN last |-> last[p] \ {h}]

\* TCB of a task created with xTaskCreate at priority p: not an EDF task.
prvInitialiseNewTask(p) == [prvNewTCB(0) EXCEPT !.uxPriority = p]

\* Locals of a vLedTask body.
ledNewBody == [pc |-> "led", xLastWakeTime |-> 0, xStart |-> 0]

\* xTaskCreate( vLedTask, name, 256, pin, p, NULL ).
xTaskCreateAtPriority(p) ==
    ~xMallocFailed /\
    LET h   == Len(tcbs) + 1
        t2  == Append(tcbs, prvInitialiseNewTask(p))
        a   == prvAddTaskToReadyListOfLevel(t2, pxReadyTasksLists, pxReadyOther, h)
        sw  == xSchedulerRunning /\ edfPreemptionRequired(t2, h, pxCurrentTCB)
        ctx == vTaskSwitchContext(a.rdy1, a.other)
    IN  IF ~prvCreateTask(xFreeBytesRemaining)
        THEN vApplicationMallocFailedHook(<<p>>)
        ELSE /\ tcbs' = t2
             /\ body' = Append(body, ledNewBody)
             /\ pxReadyTasksLists' = a.rdy1
             /\ pxReadyOther' = IF sw THEN ctx.other ELSE a.other
             /\ pxCurrentTCB' = IF sw THEN ctx.cur ELSE pxCurrentTCB
             /\ xLastSwitchedIn' = IF sw THEN edfNoteSwitchedIn(xLastSwitchedIn, t2, ctx.cur)
                                   ELSE xLastSwitchedIn
             /\ insertStamp' = Append(insertStamp, insertCount + 1)
             /\ insertCount' = insertCount + 1
             /\ lastCall' = edfCall("xTaskCreate", <<p>>, pdPASS, sw)
             /\ xJobOverran' = xJobOverran
             /\ xFreeBytesRemaining' = xFreeBytesRemaining - 1
             /\ xMallocFailed' = xMallocFailed
             /\ UNCHANGED <<harness, xTickCount, xSchedulerRunning, xEDFTaskRegistry,
                            xDelayedTaskList>>

\* vTaskStartScheduler with all levels: the idle task is created at level 0
\* and the first task is selected.
vTaskStartSchedulerAllLevels ==
    /\ ~xMallocFailed
    /\ ~xSchedulerRunning
    /\ LET other1 == [pxReadyOther EXCEPT ![0] = listINSERT_END_Indexed(@, IdleTask)]
           ctx    == vTaskSwitchContext(pxReadyTasksLists, other1)
       IN  /\ pxReadyOther' = ctx.other
           /\ pxCurrentTCB' = ctx.cur
           /\ xLastSwitchedIn' = edfNoteSwitchedIn(xLastSwitchedIn, tcbs, ctx.cur)
    /\ xSchedulerRunning' = TRUE
    /\ lastCall' = edfCall("vTaskStartScheduler", <<>>, "none", TRUE)
    /\ xJobOverran' = xJobOverran
    /\ xFreeBytesRemaining' = xFreeBytesRemaining
    /\ xMallocFailed' = xMallocFailed
    /\ UNCHANGED <<harness, xTickCount, xEDFTaskRegistry, tcbs, pxReadyTasksLists,
                   xDelayedTaskList, body, insertStamp, insertCount>>

\* The delayed-list loop of xTaskIncrementTick with all levels.
RECURSIVE edfWakeDelayedAllLevels(_, _, _, _, _, _, _, _)
edfWakeDelayedAllLevels(t, rdy1, other, dly, now, sw, stamps, cnt) ==
    IF dly = <<>> \/ t[Head(dly)].xItemValue > now
    THEN [t |-> t, rdy1 |-> rdy1, other |-> other, dly |-> dly, sw |-> sw,
          stamps |-> stamps, cnt |-> cnt]
    ELSE LET h  == Head(dly)
             t1 == [t EXCEPT ![h] = edfReleaseUpdate(t[h])]
             a  == prvAddTaskToReadyListOfLevel(t1, rdy1, other, h)
         IN  edfWakeDelayedAllLevels(t1, a.rdy1, a.other, Tail(dly), now,
                                     sw \/ edfPreemptionRequired(t1, h, pxCurrentTCB),
                                     [stamps EXCEPT ![h] = cnt + 1],
                                     cnt + 1)

\* xTaskIncrementTick with all levels.
xTaskIncrementTickAllLevels ==
    /\ xSchedulerRunning
    /\ xTickCount < MaxMixedTick
    /\ LET now == xTickCount + 1
           w   == edfWakeDelayedAllLevels(tcbs, pxReadyTasksLists, pxReadyOther,
                                          xDelayedTaskList, now, FALSE,
                                          insertStamp, insertCount)
           ctx == vTaskSwitchContext(w.rdy1, w.other)
       IN  /\ xTickCount' = now
           /\ tcbs' = edfCountMisses(w.t, w.rdy1, now)
           /\ pxReadyTasksLists' = w.rdy1
           /\ pxReadyOther' = IF w.sw THEN ctx.other ELSE w.other
           /\ xDelayedTaskList' = w.dly
           /\ insertStamp' = w.stamps
           /\ insertCount' = w.cnt
           /\ pxCurrentTCB' = IF w.sw THEN ctx.cur ELSE pxCurrentTCB
           /\ xLastSwitchedIn' = IF w.sw THEN edfNoteSwitchedIn(xLastSwitchedIn, tcbs, ctx.cur)
                                 ELSE xLastSwitchedIn
           /\ lastCall' = edfCall("xTaskIncrementTick", <<>>, "none", w.sw)
           /\ xJobOverran' = (xJobOverran \/ ~edfRunningTaskSpins)
           /\ xFreeBytesRemaining' = xFreeBytesRemaining
           /\ xMallocFailed' = xMallocFailed
    /\ UNCHANGED <<harness, xSchedulerRunning, xEDFTaskRegistry, body>>

\* xTaskDelayUntil( &xLastWakeTime, xPeriod ) of a vEDFTask body, with all
\* levels taken into the selection of the next task.
xTaskDelayUntilAllLevels ==
    /\ xSchedulerRunning
    /\ pxCurrentTCB # IdleTask
    /\ body[pxCurrentTCB].pc = "busy"
    /\ xTickCount - body[pxCurrentTCB].xStart >= tcbs[pxCurrentTCB].xWCET
    /\ LET h           == pxCurrentTCB
           xTimeToWake == body[h].xLastWakeTime + tcbs[h].xPeriod
           t1          == [tcbs EXCEPT ![h].xItemValue = xTimeToWake]
           rdy         == uxListRemove(pxReadyTasksLists, h)
           ctx         == vTaskSwitchContext(rdy, pxReadyOther)
       IN  IF xTimeToWake > xTickCount
           THEN /\ body' = [body EXCEPT ![h] =
                               [pc |-> "delayed", xLastWakeTime |-> xTimeToWake,
                                xStart |-> body[h].xStart]]
                /\ tcbs' = t1
                /\ pxReadyTasksLists' = rdy
                /\ pxReadyOther' = ctx.other
                /\ xDelayedTaskList' = vListInsert(t1, xDelayedTaskList, h)
                /\ pxCurrentTCB' = ctx.cur
                /\ xLastSwitchedIn' =
                       edfNoteSwitchedIn(edfNoteRemoved(xLastSwitchedIn, h), tcbs, ctx.cur)
                /\ lastCall' = edfCall("xTaskDelayUntil", <<>>, "none", TRUE)
                /\ xJobOverran' = xJobOverran
                /\ xFreeBytesRemaining' = xFreeBytesRemaining
                /\ xMallocFailed' = xMallocFailed
           ELSE /\ body' = [body EXCEPT ![h] =
                               [pc |-> "returned", xLastWakeTime |-> xTimeToWake,
                                xStart |-> body[h].xStart]]
                /\ lastCall' = edfCall("xTaskDelayUntil", <<>>, "none", FALSE)
                /\ xJobOverran' = xJobOverran
                /\ xFreeBytesRemaining' = xFreeBytesRemaining
                /\ xMallocFailed' = xMallocFailed
                /\ UNCHANGED <<tcbs, pxReadyTasksLists, pxReadyOther, xDelayedTaskList,
                               pxCurrentTCB, xLastSwitchedIn>>
    /\ UNCHANGED <<harness, xTickCount, xSchedulerRunning, xEDFTaskRegistry, insertStamp,
                   insertCount>>

\* vTaskDelay( delay ) of a vLedTask body: the running task leaves its ready
\* list, goes on the delayed list until tick + delay, and the next task is
\* selected.
vTaskDelay(delay) ==
    /\ xSchedulerRunning
    /\ pxCurrentTCB # IdleTask
    /\ body[pxCurrentTCB].pc = "led"
    /\ LET h   == pxCurrentTCB
           t1  == [tcbs EXCEPT ![h].xItemValue = xTickCount + delay]
           r   == prvRemoveFromReadyListOfLevel(tcbs, pxReadyTasksLists, pxReadyOther, h)
           ctx == vTaskSwitchContext(r.rdy1, r.other)
       IN  /\ tcbs' = t1
           /\ pxReadyTasksLists' = r.rdy1
           /\ pxReadyOther' = ctx.other
           /\ xDelayedTaskList' = vListInsert(t1, xDelayedTaskList, h)
           /\ pxCurrentTCB' = ctx.cur
           /\ xLastSwitchedIn' =
                  edfNoteSwitchedIn(edfNoteRemoved(xLastSwitchedIn, h), tcbs, ctx.cur)
           /\ lastCall' = edfCall("vTaskDelay", <<delay>>, "none", TRUE)
           /\ xJobOverran' = xJobOverran
           /\ xFreeBytesRemaining' = xFreeBytesRemaining
           /\ xMallocFailed' = xMallocFailed
    /\ UNCHANGED <<harness, xTickCount, xSchedulerRunning, xEDFTaskRegistry, body,
                   insertStamp, insertCount>>

\* One creation call of a main(): xTaskCreateEDF with (C, T, D), or
\* xTaskCreate with a priority.
edfEntry(C, T, D) == [edf |-> TRUE, p |-> 1, C |-> C, T |-> T, D |-> D]
ledEntry(p) == [edf |-> FALSE, p |-> p, C |-> 0, T |-> 0, D |-> 0]

\* The xTaskCreate calls of main() of main.c: Red, Yellow and Green at
\* priorities 1, 2, 3.
LedProgram == <<ledEntry(1), ledEntry(2), ledEntry(3)>>

\* The xTaskCreateEDF calls of main() of main_edf.c as creation calls.
DemoEntries == [k \in 1..Len(DemoProgram) |->
                   edfEntry(DemoProgram[k][1], DemoProgram[k][2], DemoProgram[k][3])]

\* The task sets of the mixed system, each in the order its main() creates
\* the tasks: the LED demo; the EDF demo; two tasks sharing level 2 below one
\* at level 3; an EDF task with tasks at level 0; EDF tasks with an ordinary
\* task below, above and beside them.
MixedPrograms ==
    { LedProgram,
      DemoEntries,
      <<ledEntry(2), ledEntry(2), ledEntry(3)>>,
      <<ledEntry(0), ledEntry(0), edfEntry(1, 3, 3)>>,
      <<edfEntry(1, 3, 3), ledEntry(0), ledEntry(2)>>,
      <<edfEntry(2, 4, 3), edfEntry(1, 3, 3), ledEntry(1)>> }

\* The TCB t is that of the task the creation call e makes.
edfCreatedBy(t, e) ==
    /\ t.xIsEDFTask = e.edf
    /\ t.uxPriority = e.p
    /\ t.xWCET = e.C
    /\ t.xPeriod = e.T
    /\ t.xRelativeDeadline = e.D

\* The creation calls that can come next: the tasks created so far are the
\* beginning of one of the task sets, and e is its next call.
edfNextCreation(e) ==
    \E prog \in MixedPrograms :
        /\ Len(tcbs) < Len(prog)
        /\ \A k \in 1..Len(tcbs) : edfCreatedBy(tcbs[k], prog[k])
        /\ e = prog[Len(tcbs) + 1]

\* All creation calls of the task sets.
MixedEntries == UNION { { prog[k] : k \in 1..Len(prog) } : prog \in MixedPrograms }

\* The delay of the vLedTask bodies of main.c, in ticks of 1 ms, by pin:
\* Red, Yellow, Green in the order of creation.
LedDelays == <<100, 1000, 50>>

\* Delays of the bodies of the other task sets: a few ticks, so that a task
\* that sleeps wakes below MaxMixedTick.
ShortDelays == { 1, 2 }

\* The tasks that exist are those of main() of main.c.
edfRunsLedDemo ==
    /\ Len(tcbs) = Len(LedProgram)
    /\ \A k \in 1..Len(tcbs) : edfCreatedBy(tcbs[k], LedProgram[k])

\* The tasks that exist are all the tasks of one of the task sets.
edfAllCreated ==
    \E prog \in MixedPrograms :
        /\ Len(tcbs) = Len(prog)
        /\ \A k \in 1..Len(tcbs) : edfCreatedBy(tcbs[k], prog[k])

CreateMixedEDF ==
    /\ ~xSchedulerRunning
    /\ ~edfDemoCallsMade
    /\ \E e \in MixedEntries :
          /\ e.edf
          /\ edfNextCreation(e)
          /\ xTaskCreateEDF(e.C, e.T, e.D)

CreateMixedPlain ==
    /\ ~xSchedulerRunning
    /\ \E e \in MixedEntries :
          /\ ~e.edf
          /\ edfNextCreation(e)
          /\ xTaskCreateAtPriority(e.p)

\* main() starts the scheduler after its creation calls.
StartMixed ==
    /\ edfAllCreated \/ edfDemoCallsMade
    /\ vTaskStartSchedulerAllLevels

\* The running vLedTask body calls vTaskDelay( delay ).
DelayMixed ==
    IF edfRunsLedDemo
    THEN /\ pxCurrentTCB # IdleTask
         /\ vTaskDelay(LedDelays[pxCurrentTCB])
    ELSE \E d \in ShortDelays : vTaskDelay(d)

NextMixed ==
    \/ CreateMixedEDF
    \/ CreateMixedPlain
    \/ StartMixed
    \/ xTaskIncrementTickAllLevels
    \/ vEDFTaskStart
    \/ xTaskDelayUntilAllLevels
    \/ vBusyWait
    \/ DelayMixed

SpecMixed == Init /\ [][NextMixed]_vars

(***************************************************************************)
(* Vocabulary of the properties                                            *)
(***************************************************************************)

\* The last kernel entry was xTaskCreateEDF.
LastWasCreate == lastCall.op = "xTaskCreateEDF"

\* The registry as it was when the last call was entered.
RegistryAtEntry == SubSeq(xEDFTaskRegistry, 1, lastCall.count)

\* The candidate of the last call as a (C, T, D) record.
LastCand == EDFTaskParams(lastCall.cand[1], lastCall.cand[2], lastCall.cand[3])

\* The task set judged by the last call.
LastSet == Append(RegistryAtEntry, LastCand)

RECURSIVE SumRange(_, _, _)
SumRange(f, lo, hi) ==
    IF lo > hi THEN 0
    ELSE IF lo = hi THEN f[lo]
    ELSE SumRange(f, lo, (lo + hi) \div 2) + SumRange(f, ((lo + hi) \div 2) + 1, hi)

SumTo(f, n) == SumRange(f, 1, n)


Max2(a, b) == IF a >= b THEN a ELSE b
Min2(a, b) == IF a <= b THEN a ELSE b

AllImplicit(s) == \A i \in 1..Len(s) : s[i].xRelativeDeadline = s[i].xPeriod

ValidParams(e) ==
    /\ 1 <= e.xWCET
    /\ e.xWCET <= e.xRelativeDeadline
    /\ e.xRelativeDeadline <= e.xPeriod

\* Sum of floor(Ci * 10000 / Ti) <= 10000.
LLFormula(s) ==
    SumTo([i \in 1..Len(s) |-> (s[i].xWCET * 10000) \div s[i].xPeriod], Len(s)) <= 10000

RECURSIVE Gcd(_, _)
Gcd(a, b) == IF b = 0 THEN a ELSE Gcd(b, a % b)

Lcm(a, b) == (a \div Gcd(a, b)) * b

RECURSIVE LcmOfPeriods(_, _)
LcmOfPeriods(s, n) == IF n = 0 THEN 1 ELSE Lcm(LcmOfPeriods(s, n - 1), s[n].xPeriod)

\* Exact (rational) utilisation sum Ci / Ti <= 1, compared over the common
\* denominator lcm(Ti).
ExactUtilisationAtMostOne(s) ==
    LET P == LcmOfPeriods(s, Len(s))
    IN  SumTo([i \in 1..Len(s) |-> s[i].xWCET * (P \div s[i].xPeriod)], Len(s)) <= P

\* H = min(4 * max Ti, 60 * tick rate).
PDAHorizon(s) ==
    LET maxT == CHOOSE m \in {s[i].xPeriod : i \in 1..Len(s)} :
                    \A i \in 1..Len(s) : s[i].xPeriod <= m
    IN  Min2(4 * maxT, 60 * 1000)

\* Union over i of {Di + j * Ti : j >= 0, Di + j * Ti <= H}.
PDATestingPoints(s) ==
    LET H == PDAHorizon(s)
    IN  UNION { { s[i].xRelativeDeadline + j * s[i].xPeriod :
                    j \in { k \in 0..(H \div s[i].xPeriod) :
                              s[i].xRelativeDeadline + k * s[i].xPeriod <= H } } :
                i \in 1..Len(s) }

\* h(L) = sum over i of max(0, floor((L - Di) / Ti) + 1) * Ci.
PDADemand(s, L) ==
    SumTo([i \in 1..Len(s) |->
              Max2(0, ((L - s[i].xRelativeDeadline) \div s[i].xPeriod) + 1) * s[i].xWCET],
          Len(s))

PDAFormula(s) == \A L \in PDATestingPoints(s) : PDADemand(s, L) <= L

\* Position of task h in the ready list, 0 if absent.
ReadyIndex(h) ==
    IF \E k \in 1..Len(pxReadyTasksLists) : pxReadyTasksLists[k] = h
    THEN CHOOSE k \in 1..Len(pxReadyTasksLists) : pxReadyTasksLists[k] = h
    ELSE 0

InReadyList(h) == ReadyIndex(h) # 0

(***************************************************************************)
(* Properties                                                              *)
(***************************************************************************)

\* C1 -- Dispatch correctness.  Whenever a kernel entry ends in a context
\* switch while the EDF ready list is not empty, the task selected to run is
\* an EDF task on that list, its absolute deadline is the minimum over the
\* list, and among the tasks sharing that minimum it was inserted first.
C1_DispatchCorrect ==
    (lastCall.switched /\ pxReadyTasksLists # <<>>) =>
        /\ pxCurrentTCB # IdleTask
        /\ InReadyList(pxCurrentTCB)
        /\ tcbs[pxCurrentTCB].xIsEDFTask
        /\ \A k \in 1..Len(pxReadyTasksLists) :
               LET h == pxReadyTasksLists[k]
               IN  /\ tcbs[pxCurrentTCB].xAbsoluteDeadline <= tcbs[h].xAbsoluteDeadline
                   /\ tcbs[pxCurrentTCB].xAbsoluteDeadline = tcbs[h].xAbsoluteDeadline
                          => insertStamp[pxCurrentTCB] <= insertStamp[h]

\* A release in the tick handler preempts the running job, and the selected
\* job shares its deadline with another ready job.
C1_Witness ==
    /\ lastCall.switched
    /\ lastCall.op = "xTaskIncrementTick"
    /\ pxCurrentTCB # IdleTask
    /\ \E k \in 1..Len(pxReadyTasksLists) :
           /\ pxReadyTasksLists[k] # pxCurrentTCB
           /\ tcbs[pxReadyTasksLists[k]].xAbsoluteDeadline
                  = tcbs[pxCurrentTCB].xAbsoluteDeadline

\* C2 -- Admission keeps the admitted set schedulable.  As long as every job
\* has run for at most its C ticks and then slept until the next period (no
\* tick has found a running task outside the loop of vBusyWait), no deadline
\* miss is counted and no job on the ready list is found by the tick handler
\* at a tick later than its absolute deadline.
C2_NoDeadlineMiss ==
    ~xJobOverran =>
        /\ \A h \in 1..Len(tcbs) : tcbs[h].xDeadlineMissCount = 0
        /\ lastCall.op = "xTaskIncrementTick" =>
               \A k \in 1..Len(pxReadyTasksLists) :
                   xTickCount <= tcbs[pxReadyTasksLists[k]].xAbsoluteDeadline

\* C3 -- xTaskCreateEDF returns pdPASS exactly when the registry has room and
\* the admission test selected for registry plus candidate accepts; otherwise
\* it returns errCOULD_NOT_ALLOCATE_REQUIRED_MEMORY.  A successful call
\* appends the candidate as the one new registry entry, a failed call appends
\* nothing, and the registry holds one entry per successful call, that is,
\* per created task.
C3_CreateReturn ==
    /\ Len(xEDFTaskRegistry) = Len(tcbs)
    /\ LastWasCreate =>
        /\ lastCall.ret \in {pdPASS, errCOULD_NOT_ALLOCATE_REQUIRED_MEMORY}
        /\ lastCall.ret = pdPASS <=>
               /\ lastCall.count < 128
               /\ IF AllImplicit(LastSet) THEN LLFormula(LastSet)
                  ELSE PDAFormula(LastSet)
        /\ lastCall.ret = pdPASS =>
               /\ Len(xEDFTaskRegistry) = lastCall.count + 1
               /\ xEDFTaskRegistry[lastCall.count + 1] = LastCand
        /\ lastCall.ret # pdPASS => Len(xEDFTaskRegistry) = lastCall.count

\* C4 -- Admission atomicity.  A step in which xTaskCreateEDF returns failure
\* leaves the registry, the task control blocks, the ready list, the delayed
\* list, the running task and the tick count as they were.
C4_RejectAtomic ==
    [][ (lastCall'.op = "xTaskCreateEDF"
            /\ lastCall'.ret = errCOULD_NOT_ALLOCATE_REQUIRED_MEMORY)
        => UNCHANGED <<xEDFTaskRegistry, tcbs, pxReadyTasksLists, xDelayedTaskList,
                       pxCurrentTCB, body, xTickCount>> ]_vars

\* A call is rejected while the scheduler runs, with tasks both on the ready
\* list and on the delayed list.
C4_Witness ==
    /\ LastWasCreate
    /\ lastCall.ret = errCOULD_NOT_ALLOCATE_REQUIRED_MEMORY
    /\ xSchedulerRunning
    /\ xEDFTaskRegistry # <<>>
    /\ pxReadyTasksLists # <<>>
    /\ xDelayedTaskList # <<>>

\* C5 -- Parameter validity.  Every registry entry satisfies 1 <= C <= D <= T,
\* and a candidate violating it is rejected.
C5_ParamsValid ==
    /\ \A i \in 1..Len(xEDFTaskRegistry) : ValidParams(xEDFTaskRegistry[i])
    /\ (LastWasCreate /\ ~ValidParams(LastCand)) =>
           lastCall.ret = errCOULD_NOT_ALLOCATE_REQUIRED_MEMORY

\* C6 -- Registry capacity.  The registry never holds more than
\* configMAX_EDF_TASKS (128) entries, and a call made with 128 entries
\* returns failure and changes neither the registry nor the ready list nor
\* the task control blocks.
C6_Capacity ==
    /\ [](Len(xEDFTaskRegistry) <= 128)
    /\ []((LastWasCreate /\ lastCall.count >= 128) =>
             lastCall.ret = errCOULD_NOT_ALLOCATE_REQUIRED_MEMORY)
    /\ [][ (Len(xEDFTaskRegistry) >= 128 /\ lastCall'.op = "xTaskCreateEDF")
           => UNCHANGED <<xEDFTaskRegistry, pxReadyTasksLists, tcbs,
                          xDelayedTaskList>> ]_vars

\* A candidate that the utilisation test would pass is rejected because the
\* registry is full.
C6_Witness ==
    /\ LastWasCreate
    /\ lastCall.count = 128
    /\ Len(xEDFTaskRegistry) = 128
    /\ lastCall.ret = errCOULD_NOT_ALLOCATE_REQUIRED_MEMORY
    /\ LLFormula(LastSet)
    /\ AllImplicit(LastSet)

\* C7 -- Test selector.  With room in the registry, the decision of
\* xTaskCreateEDF is the LL-bound result when every registry entry and the
\* candidate have D == T, and the processor-demand result otherwise.
C7_Selector ==
    (LastWasCreate /\ lastCall.count < 128) =>
        (lastCall.ret = pdPASS <=>
            IF AllImplicit(LastSet)
            THEN prvEDFCheckLLBound(RegistryAtEntry, LastCand)
            ELSE prvEDFCheckProcessorDemand(RegistryAtEntry, LastCand))

\* A D == T candidate is judged against a registry holding a D < T entry, in
\* a case where the two tests disagree.
C7_Witness ==
    /\ LastWasCreate
    /\ LastCand.xRelativeDeadline = LastCand.xPeriod
    /\ \E i \in 1..lastCall.count :
           xEDFTaskRegistry[i].xRelativeDeadline < xEDFTaskRegistry[i].xPeriod
    /\ prvEDFCheckLLBound(RegistryAtEntry, LastCand)
           # prvEDFCheckProcessorDemand(RegistryAtEntry, LastCand)

\* C8 -- Admission safety for implicit deadlines.  Every all-D==T task set
\* that xTaskCreateEDF admits has exact utilisation sum Ci / Ti <= 1.
C8_LLSafe ==
    (LastWasCreate /\ lastCall.ret = pdPASS /\ AllImplicit(LastSet)) =>
        ExactUtilisationAtMostOne(LastSet)

\* C9 -- PDA decision.  When the task set is not all D == T (and the registry
\* has room), xTaskCreateEDF accepts exactly when h(L) <= L at every testing
\* point L = Di + j * Ti <= H, H = min(4 * max Ti, 60 * tick rate), where a
\* task with L < Di contributes nothing to h(L).
C9_PDADecision ==
    (LastWasCreate /\ lastCall.count < 128 /\ ~AllImplicit(LastSet)) =>
        (lastCall.ret = pdPASS <=> PDAFormula(LastSet))

\* A set of two or more tasks is accepted by the analysis with the horizon
\* cut to 60 seconds, and some testing point lies before another task's
\* first deadline.
C9_Witness ==
    /\ LastWasCreate
    /\ lastCall.ret = pdPASS
    /\ ~AllImplicit(LastSet)
    /\ Len(LastSet) >= 2
    /\ PDAHorizon(LastSet) = 60000
    /\ \E L \in PDATestingPoints(LastSet) :
           \E i \in 1..Len(LastSet) : L < LastSet[i].xRelativeDeadline

\* C10 -- Over-utilisation is rejected.  A call whose registry plus candidate
\* has exact utilisation above 1 returns failure and leaves the registry as
\* it was.
C10_OverUtilisationRejected ==
    (LastWasCreate /\ ~ExactUtilisationAtMostOne(LastSet)) =>
        /\ lastCall.ret = errCOULD_NOT_ALLOCATE_REQUIRED_MEMORY
        /\ xEDFTaskRegistry = RegistryAtEntry

\* C11 -- First job timing.  After a successful xTaskCreateEDF at tick t,
\* before or after the scheduler has started, the new task has absolute
\* deadline t + D and next release t + T, its list item value is that
\* deadline, and it sits on the ready list behind every entry whose deadline
\* is not later and in front of every entry whose deadline is later.
C11_FirstJobTiming ==
    (LastWasCreate /\ lastCall.ret = pdPASS) =>
        LET h == Len(tcbs)
            p == ReadyIndex(h)
        IN  /\ tcbs[h].xAbsoluteDeadline = xTickCount + LastCand.xRelativeDeadline
            /\ tcbs[h].xNextReleaseTime = xTickCount + LastCand.xPeriod
            /\ tcbs[h].xItemValue = tcbs[h].xAbsoluteDeadline
            /\ p # 0
            /\ \A k \in 1..Len(pxReadyTasksLists) :
                   /\ k < p => tcbs[pxReadyTasksLists[k]].xAbsoluteDeadline
                                   <= tcbs[h].xAbsoluteDeadline
                   /\ k > p => tcbs[pxReadyTasksLists[k]].xAbsoluteDeadline
                                   > tcbs[h].xAbsoluteDeadline

\* A task is created while the scheduler runs, at a tick after 0, and lands
\* between two tasks already on the ready list.
C11_Witness ==
    /\ LastWasCreate
    /\ lastCall.ret = pdPASS
    /\ xSchedulerRunning
    /\ xTickCount > 0
    /\ ReadyIndex(Len(tcbs)) > 1
    /\ ReadyIndex(Len(tcbs)) < Len(pxReadyTasksLists)

\* C12 -- Deadline monotonicity per task.  Whenever a task passes from one
\* job (one iteration of its body) to the next, its absolute deadline grows
\* by exactly T: on the step that releases it from the delayed list, and on
\* the step in which xTaskDelayUntil returns at once because the job ended
\* at or after the next release time.
C12_DeadlineMonotonic ==
    [][ \A h \in 1..Len(tcbs) :
          /\ (/\ body[h].pc = "delayed"
              /\ \E k \in 1..Len(xDelayedTaskList) : xDelayedTaskList[k] = h
              /\ \A k \in 1..Len(xDelayedTaskList') : xDelayedTaskList'[k] # h)
                 => tcbs'[h].xAbsoluteDeadline
                        = tcbs[h].xAbsoluteDeadline + tcbs[h].xPeriod
          /\ (/\ body[h].pc = "busy"
              /\ body'[h].pc = "returned")
                 => tcbs'[h].xAbsoluteDeadline
                        = tcbs[h].xAbsoluteDeadline + tcbs[h].xPeriod ]_vars

\* The tasks a step takes off the delayed list.
WokenInStep(h) ==
    /\ \E k \in 1..Len(xDelayedTaskList) : xDelayedTaskList[k] = h
    /\ \A k \in 1..Len(xDelayedTaskList') : xDelayedTaskList'[k] # h

\* C13 -- EDF-to-EDF preemption.  On a tick taken while an EDF task runs,
\* a context switch is requested exactly when some task released by that
\* tick has an absolute deadline strictly earlier than the running task's;
\* without such a release the running task stays the running task.
C13_StrictPreemption ==
    [][ (lastCall'.op = "xTaskIncrementTick" /\ pxCurrentTCB # IdleTask) =>
          /\ lastCall'.switched <=>
                 \E h \in 1..Len(tcbs) :
                     /\ WokenInStep(h)
                     /\ tcbs'[h].xAbsoluteDeadline
                            < tcbs'[pxCurrentTCB].xAbsoluteDeadline
          /\ ~lastCall'.switched => pxCurrentTCB' = pxCurrentTCB ]_vars

\* A tick released a task whose deadline equals the running task's, and the
\* running task kept the processor.
C13_Witness ==
    /\ lastCall.op = "xTaskIncrementTick"
    /\ ~lastCall.switched
    /\ pxCurrentTCB # IdleTask
    /\ \E k \in 1..Len(pxReadyTasksLists) :
           LET h == pxReadyTasksLists[k]
           IN  /\ h # pxCurrentTCB
               /\ body[h].pc = "delayed"
               /\ insertStamp[h] = insertCount
               /\ tcbs[h].xAbsoluteDeadline = tcbs[pxCurrentTCB].xAbsoluteDeadline

\* C14 -- Ready-set ordering.  In every state the EDF tasks on the ready list
\* appear in non-decreasing order of absolute deadline from head to tail, and
\* two EDF tasks with the same deadline appear in the order of their
\* insertion, also when ordinary tasks have been appended to the same list.
C14_ReadyOrdered ==
    \A k1 \in 1..Len(pxReadyTasksLists) : \A k2 \in 1..Len(pxReadyTasksLists) :
        LET a == pxReadyTasksLists[k1]
            b == pxReadyTasksLists[k2]
        IN  (k1 < k2 /\ tcbs[a].xIsEDFTask /\ tcbs[b].xIsEDFTask) =>
                /\ tcbs[a].xAbsoluteDeadline <= tcbs[b].xAbsoluteDeadline
                /\ tcbs[a].xAbsoluteDeadline = tcbs[b].xAbsoluteDeadline
                       => insertStamp[a] < insertStamp[b]

\* An ordinary task sits between EDF tasks on the list, two EDF tasks share
\* a deadline, and an EDF task inserted after the ordinary task stands in
\* front of it.
C14_Witness ==
    /\ \E k1 \in 1..Len(pxReadyTasksLists) : \E k2 \in 1..Len(pxReadyTasksLists) :
           \E k3 \in 1..Len(pxReadyTasksLists) :
               /\ k1 < k2 /\ k2 < k3
               /\ tcbs[pxReadyTasksLists[k1]].xIsEDFTask
               /\ ~tcbs[pxReadyTasksLists[k2]].xIsEDFTask
               /\ tcbs[pxReadyTasksLists[k3]].xIsEDFTask
               /\ insertStamp[pxReadyTasksLists[k1]] > insertStamp[pxReadyTasksLists[k2]]
    /\ \E k1 \in 1..Len(pxReadyTasksLists) : \E k2 \in 1..Len(pxReadyTasksLists) :
           /\ k1 # k2
           /\ tcbs[pxReadyTasksLists[k1]].xIsEDFTask
           /\ tcbs[pxReadyTasksLists[k2]].xIsEDFTask
           /\ tcbs[pxReadyTasksLists[k1]].xAbsoluteDeadline
                  = tcbs[pxReadyTasksLists[k2]].xAbsoluteDeadline

\* The running job of task h (the current iteration of its body) was already
\* past its deadline when the tick count took its present value: the
\* iteration began at an earlier tick and the deadline does not change within
\* an iteration, so the tick handler has counted it.
MissAlreadyCounted(h) ==
    /\ body[h].pc = "busy"
    /\ body[h].xStart < xTickCount
    /\ xTickCount > tcbs[h].xAbsoluteDeadline

\* C15 -- Deadline-miss accounting.  The miss counter of a task grows only by
\* one, only on a tick later than the absolute deadline of its job, and only
\* once per job instance: a job that has been counted is not counted again,
\* however many further ticks it stays incomplete.
C15_MissOncePerJob ==
    [][ \A h \in 1..Len(tcbs) :
          /\ tcbs'[h].xDeadlineMissCount # tcbs[h].xDeadlineMissCount =>
                 /\ tcbs'[h].xDeadlineMissCount = tcbs[h].xDeadlineMissCount + 1
                 /\ xTickCount' > tcbs'[h].xAbsoluteDeadline
          /\ MissAlreadyCounted(h) =>
                 tcbs'[h].xDeadlineMissCount = tcbs[h].xDeadlineMissCount ]_vars

\* C16 -- xEDFTestAdmission is pure.  A call leaves the registry and the
\* ready list as they were, and a call that repeats the candidate of the
\* call before it returns the same pair of decisions.
C16_TestAdmissionPure ==
    [][ lastCall'.op = "xEDFTestAdmission" =>
          /\ UNCHANGED <<xEDFTaskRegistry, pxReadyTasksLists>>
          /\ (lastCall.op = "xEDFTestAdmission" /\ lastCall'.cand = lastCall.cand)
                 => lastCall'.ret = lastCall.ret ]_vars

\* C17 -- 100-task divergence.  In the run of main_edf_100test.c the LL
\* result is accept for every task up to 50 and reject at 51; the processor
\* demand result is accept for every task up to 51; and at the end of the
\* loop the processor-demand test has a first rejection, later than the LL
\* one, and its highest accepted index is above that of the LL test.
C17_Divergence ==
    /\ harness.i <= 51 =>
           /\ harness.iFirstLLReject = -1
           /\ harness.iLLAccepted = harness.i - 1
    /\ harness.i > 51 =>
           /\ harness.iFirstLLReject = 51
           /\ harness.iLLAccepted = 50
           /\ harness.iPDAccepted >= 51
           /\ harness.iFirstPDReject = -1 \/ harness.iFirstPDReject > 51
    /\ harness.i <= 52 => harness.iPDAccepted = harness.i - 1
    /\ harness.i > NUM_TASKS =>
           /\ harness.iFirstPDReject > harness.iFirstLLReject
           /\ harness.iPDAccepted > harness.iLLAccepted

\* The loop has finished: all 100 tasks were submitted, the LL test stopped
\* accepting at 50 and the processor-demand test at 51.
C17_Witness ==
    /\ harness.i = NUM_TASKS + 1
    /\ uxEDFTaskCount = NUM_TASKS
    /\ harness.iLLAccepted = 50
    /\ harness.iPDAccepted = 51
    /\ harness.iFirstPDReject = 52

\* C19 -- Full-utilisation single task.  A task with C = T = D offered to
\* an empty registry is accepted, and while it is the only task, running its
\* body for C ticks and sleeping until its next period (no tick finds it
\* outside the loop of vBusyWait), its miss counter stays 0.
C19_FullUtilisationSingle ==
    /\ ( /\ LastWasCreate
         /\ lastCall.count = 0
         /\ lastCall.cand[1] = lastCall.cand[2]
         /\ lastCall.cand[2] = lastCall.cand[3] ) => lastCall.ret = pdPASS
    /\ \A h \in 1..Len(tcbs) :
          ( /\ Len(tcbs) = 1
            /\ tcbs[h].xWCET = tcbs[h].xPeriod
            /\ tcbs[h].xPeriod = tcbs[h].xRelativeDeadline
            /\ ~xJobOverran )
          => tcbs[h].xDeadlineMissCount = 0

\* The tasks whose period is the smallest of the set.
SmallestPeriod(h) == \A g \in 1..Len(tcbs) : tcbs[h].xPeriod <= tcbs[g].xPeriod

\* The task sleeps on the delayed list.
InDelayedList(h) == \E k \in 1..Len(xDelayedTaskList) : xDelayedTaskList[k] = h

\* Releases set against periods: the next release time of a task less its
\* last wake time, the period of a task that still sleeps towards its
\* release counted as not yet over.  Every period passed adds T to
\* xLastWakeTime and every release adds T to xNextReleaseTime (and with it
\* assigns one new absolute deadline), so the difference stays what it is
\* exactly as long as n periods bring n releases.
ReleaseLag(h) ==
    tcbs[h].xNextReleaseTime - body[h].xLastWakeTime
        + (IF InDelayedList(h) THEN tcbs[h].xPeriod ELSE 0)

\* C20 -- Periodic release count.  For a task of smallest period that has
\* begun to run, the periods it passes and the releases it is given stay in
\* step: a step changes neither without the other, a release falls on the
\* tick xLastWakeTime + T of the release before it, and it assigns an
\* absolute deadline the task did not have before.
C20_ReleasePerPeriod ==
    [][ \A h \in 1..Len(tcbs) :
          (SmallestPeriod(h) /\ body[h].pc # "init") =>
             /\ ReleaseLag(h)' = ReleaseLag(h)
             /\ WokenInStep(h) =>
                    /\ xTickCount' = body[h].xLastWakeTime
                    /\ tcbs'[h].xAbsoluteDeadline > tcbs[h].xAbsoluteDeadline ]_vars

\* C21 -- Release step.  A tick that takes an EDF task off the delayed list
\* sets its absolute deadline to the old next release time plus D, advances
\* the next release time by T and makes the new deadline its list item
\* value; the task stands in the ready list under that new value, behind
\* every entry with a value up to it and before every greater EDF entry,
\* and not under the deadline of the job before.
C21_ReleaseStep ==
    [][ \A h \in 1..Len(tcbs) :
          (WokenInStep(h) /\ tcbs[h].xIsEDFTask) =>
             /\ tcbs'[h].xAbsoluteDeadline
                    = tcbs[h].xNextReleaseTime + tcbs[h].xRelativeDeadline
             /\ tcbs'[h].xNextReleaseTime
                    = tcbs[h].xNextReleaseTime + tcbs[h].xPeriod
             /\ tcbs'[h].xItemValue = tcbs'[h].xAbsoluteDeadline
             /\ tcbs'[h].xItemValue # tcbs[h].xAbsoluteDeadline
             /\ \E k \in 1..Len(pxReadyTasksLists') :
                    /\ pxReadyTasksLists'[k] = h
                    /\ \A j \in 1..(k - 1) :
                           tcbs'[pxReadyTasksLists'[j]].xItemValue
                               <= tcbs'[h].xAbsoluteDeadline
                    /\ \A j \in (k + 1)..Len(pxReadyTasksLists') :
                           tcbs'[pxReadyTasksLists'[j]].xItemValue
                               >= tcbs'[h].xAbsoluteDeadline ]_vars

\* A tick has just released a task for its second or a later job into a
\* ready list that holds another task as well.
C21_Witness ==
    /\ lastCall.op = "xTaskIncrementTick"
    /\ Len(pxReadyTasksLists) >= 2
    /\ \E h \in 1..Len(tcbs) :
          /\ InReadyList(h)
          /\ body[h].pc = "delayed"
          /\ insertStamp[h] = insertCount
          /\ tcbs[h].xAbsoluteDeadline = xTickCount + tcbs[h].xRelativeDeadline

\* C22 -- Deadline matches activation.  The absolute deadline of a task in
\* the ready list is the tick at which its job was put there plus D: the
\* creation tick for the first job, and for a later job the tick at which
\* the tick handler wakes it, which is then the next release time the
\* kernel computed the deadline from.
C22_DeadlineMatchesActivation ==
    [][ \A h \in 1..Len(tcbs') :
          /\ (h > Len(tcbs) /\ tcbs'[h].xIsEDFTask) =>
                 tcbs'[h].xAbsoluteDeadline = xTickCount' + tcbs'[h].xRelativeDeadline
          /\ (h <= Len(tcbs) /\ WokenInStep(h) /\ tcbs[h].xIsEDFTask) =>
                 /\ xTickCount' = tcbs[h].xNextReleaseTime
                 /\ tcbs'[h].xAbsoluteDeadline
                        = xTickCount' + tcbs'[h].xRelativeDeadline ]_vars

\* C23 -- Next-release invariant.  The release time of the latest job of a
\* task is its absolute deadline less D; the next release time lies T after
\* it, and for a task asleep in the delayed list the next release time is
\* still to come.
C23_NextRelease ==
    \A h \in 1..Len(tcbs) :
        tcbs[h].xIsEDFTask =>
           /\ tcbs[h].xNextReleaseTime
                  - (tcbs[h].xAbsoluteDeadline - tcbs[h].xRelativeDeadline)
                  = tcbs[h].xPeriod
           /\ InDelayedList(h) => tcbs[h].xNextReleaseTime > xTickCount

\* Number of entries of the list s that are the task h.
RECURSIVE ListCount(_, _)
ListCount(s, h) ==
    IF s = <<>> THEN 0
    ELSE (IF Head(s) = h THEN 1 ELSE 0) + ListCount(Tail(s), h)

\* C24 -- One ready entry per task.  Every task stands at most once in the
\* ready list and at most once in the delayed list, and never in both.
C24_OneEntryPerTask ==
    \A h \in 1..Len(tcbs) :
        ListCount(pxReadyTasksLists, h) + ListCount(xDelayedTaskList, h) <= 1

\* A tick has just moved a task from the delayed list to a ready list that
\* held another task already, while a third task sleeps on.
C24_Witness ==
    /\ lastCall.op = "xTaskIncrementTick"
    /\ Len(pxReadyTasksLists) >= 2
    /\ Len(xDelayedTaskList) >= 1
    /\ \E h \in 1..Len(tcbs) :
          /\ InReadyList(h)
          /\ body[h].pc = "delayed"
          /\ insertStamp[h] = insertCount

\* C25 -- Registry append-only.  No step of creation, admission test, tick
\* or sleep shortens the registry or changes the (C, T, D) held at an index
\* already in use.
C25_RegistryAppendOnly ==
    [][ /\ Len(xEDFTaskRegistry') >= Len(xEDFTaskRegistry)
        /\ \A i \in 1..Len(xEDFTaskRegistry) :
               xEDFTaskRegistry'[i] = xEDFTaskRegistry[i] ]_vars

\* The registry holds entries of created tasks and of admission tests, a
\* call has just been refused, and the system has run: ticks have passed
\* and a task sleeps.
C25_Witness ==
    /\ Len(tcbs) >= 1
    /\ Len(xEDFTaskRegistry) > Len(tcbs)
    /\ lastCall.op = "xTaskCreateEDF"
    /\ lastCall.ret = errCOULD_NOT_ALLOCATE_REQUIRED_MEMORY
    /\ xTickCount > 1
    /\ xDelayedTaskList # <<>>

\* C28 -- Edge-triggered preemption.  A tick taken while an EDF job runs,
\* on which no task is released or every released job has a deadline no
\* earlier than the running job's, asks for no switch and leaves the running
\* job running, whatever else waits in the ready list.
C28_EdgeTriggered ==
    [][ ( /\ lastCall'.op = "xTaskIncrementTick"
          /\ pxCurrentTCB # IdleTask
          /\ \A h \in 1..Len(tcbs) :
                 WokenInStep(h) =>
                    tcbs'[h].xAbsoluteDeadline >= tcbs'[pxCurrentTCB].xAbsoluteDeadline )
        => ( ~lastCall'.switched /\ pxCurrentTCB' = pxCurrentTCB ) ]_vars

\* A tick has passed on which nothing was released (no task of the ready
\* list is fresh from the delayed list) while another EDF job waited behind
\* the running one, and the running job went on.
C28_Witness ==
    /\ lastCall.op = "xTaskIncrementTick"
    /\ ~lastCall.switched
    /\ pxCurrentTCB # IdleTask
    /\ body[pxCurrentTCB].pc = "busy"
    /\ Len(pxReadyTasksLists) >= 2
    /\ \A k \in 1..Len(pxReadyTasksLists) : body[pxReadyTasksLists[k]].pc # "delayed"
    /\ \E k \in 1..Len(pxReadyTasksLists) : body[pxReadyTasksLists[k]].pc = "init"

\* C29 -- Preemption at first release.  A successful xTaskCreateEDF made
\* while the scheduler runs an EDF job asks for a context switch exactly
\* when the new task's deadline, current tick + D, is strictly earlier than
\* the running job's absolute deadline, and the switch is to the new task.
C29_FirstReleasePreemption ==
    [][ ( /\ lastCall'.op = "xTaskCreateEDF"
          /\ lastCall'.ret = pdPASS
          /\ xSchedulerRunning
          /\ pxCurrentTCB # IdleTask )
        => /\ lastCall'.switched <=>
                  xTickCount + lastCall'.cand[3] < tcbs[pxCurrentTCB].xAbsoluteDeadline
           /\ pxCurrentTCB' = IF lastCall'.switched THEN Len(tcbs') ELSE pxCurrentTCB ]_vars

\* A task created while another EDF job was running has taken the
\* processor from it: it runs, and the job it displaced waits in the ready
\* list with its busy-wait unfinished.
C29_Witness ==
    /\ LastWasCreate
    /\ lastCall.ret = pdPASS
    /\ lastCall.switched
    /\ xSchedulerRunning
    /\ xTickCount > 0
    /\ pxCurrentTCB = Len(tcbs)
    /\ \E h \in 1..Len(tcbs) :
          /\ h # pxCurrentTCB
          /\ InReadyList(h)
          /\ body[h].pc = "busy"
          /\ tcbs[h].xAbsoluteDeadline > tcbs[pxCurrentTCB].xAbsoluteDeadline

\* C30 -- Same-tick releases.  Tasks that a tick takes off the delayed list
\* together are released in the order of their admission, and of two such
\* tasks with equal new deadlines the one admitted earlier stands ahead in
\* the ready list.
C30_SameTickRegistryOrder ==
    [][ \A g, h \in 1..Len(tcbs) :
          (g < h /\ WokenInStep(g) /\ WokenInStep(h)) =>
             /\ insertStamp'[g] < insertStamp'[h]
             /\ tcbs'[g].xAbsoluteDeadline = tcbs'[h].xAbsoluteDeadline
                    => ReadyIndex(g)' < ReadyIndex(h)' ]_vars

\* The tasks on the ready list of a level other than 1.
ReadySetOfLevel(p) == { pxReadyOther[p].items[k] : k \in 1..Len(pxReadyOther[p].items) }

\* C26 -- Selection outside the EDF level.  When a context switch takes the
\* next task from the ready list of a level other than 1, the choice is the
\* stock round robin: with two or more tasks on that list, the task taken is
\* not the one that was switched in from the list the time before and has
\* stayed on it since, but the entry that follows it.
C26_RoundRobinOutsideEDF ==
    [][ \A p \in OtherLevels :
          ( /\ lastCall'.switched
            /\ xSchedulerRunning
            /\ uxPriorityOf(tcbs', pxCurrentTCB') = p
            /\ Len(pxReadyOther'[p].items) >= 2
            /\ xLastSwitchedIn[p] # {}
            /\ xLastSwitchedIn[p] \subseteq ReadySetOfLevel(p)' )
          => pxCurrentTCB' \notin xLastSwitchedIn[p] ]_vars

\* The set of the tasks the step takes off the delayed list.
WokenSetInStep == { h \in 1..Len(tcbs) : WokenInStep(h) }

\* The waking task h and the running task are both EDF tasks.
BothEDF(h) ==
    IF pxCurrentTCB = IdleTask THEN FALSE
    ELSE tcbs[h].xIsEDFTask /\ tcbs[pxCurrentTCB].xIsEDFTask

\* How many calls of listGET_OWNER_OF_NEXT_ENTRY away from pxIndex the task
\* h stands on the list l; the end marker counts as one position.
RingDistance(l, h) == (listPositionOf(l.items, h) - l.pxIndex) % (Len(l.items) + 1)

\* C27 -- Mixed EDF / non-EDF decisions never use deadlines.  In a tick that
\* wakes tasks of which none forms an EDF pair with the running task, a
\* switch is requested exactly when a woken task has a higher priority than
\* the running one: a non-EDF task waking at level 0 never preempts a running
\* EDF job, an EDF job waking while idle or a level-0 task runs always
\* requests the switch; and a woken non-EDF task goes to the end of the list
\* of its level, behind every task that was on it, whatever its item value.
C27_MixedByPriority ==
    [][ (lastCall'.op = "xTaskIncrementTick" /\ xTickCount' = xTickCount + 1)
        => /\ (\A h \in WokenSetInStep : ~BothEDF(h))
                => /\ lastCall'.switched
                        <=> \E h \in WokenSetInStep :
                               uxPriorityOf(tcbs, h) > uxPriorityOf(tcbs, pxCurrentTCB)
                   /\ ~lastCall'.switched => pxCurrentTCB' = pxCurrentTCB
           /\ ( /\ uxPriorityOf(tcbs, pxCurrentTCB) = 1
                /\ WokenSetInStep # {}
                /\ \A h \in WokenSetInStep : uxPriorityOf(tcbs, h) = 0 )
                => ~lastCall'.switched /\ pxCurrentTCB' = pxCurrentTCB
           /\ ( /\ uxPriorityOf(tcbs, pxCurrentTCB) = 0
                /\ \E h \in WokenSetInStep : tcbs[h].xIsEDFTask )
                => lastCall'.switched /\ uxPriorityOf(tcbs', pxCurrentTCB') >= 1
           /\ \A h \in WokenSetInStep :
                ~tcbs[h].xIsEDFTask
                => LET p == uxPriorityOf(tcbs, h)
                   IN  IF p = 1
                       THEN /\ ReadyIndex(h)' > 0
                            /\ \A g \in 1..Len(tcbs) :
                                   (ReadyIndex(g) > 0 /\ ReadyIndex(g)' > 0)
                                   => ReadyIndex(g)' < ReadyIndex(h)'
                       ELSE /\ h \in ReadySetOfLevel(p)'
                            /\ \A g \in ReadySetOfLevel(p) :
                                   g \in ReadySetOfLevel(p)'
                                   => RingDistance(pxReadyOther'[p], g)
                                        < RingDistance(pxReadyOther'[p], h) ]_vars

\* The tick has just woken a level-0 task while an EDF job runs, and the EDF
\* job still runs.
C27_Witness ==
    /\ lastCall.op = "xTaskIncrementTick"
    /\ ~lastCall.switched
    /\ xTickCount >= 1
    /\ uxPriorityOf(tcbs, pxCurrentTCB) = 1
    /\ \E h \in ReadySetOfLevel(0) :
          /\ h # IdleTask
          /\ ~tcbs[h].xIsEDFTask
          /\ tcbs[h].xItemValue = xTickCount
          /\ insertStamp[h] = insertCount

\* C31 -- The miss threshold is strict and the counter is monotone.  The miss
\* counter of a task never decreases; it grows only in a tick, only for a task
\* that is on the ready list (ready or running) and only when the new tick
\* count is strictly greater than the task's absolute deadline.  At the tick
\* equal to the deadline nothing is counted, and a job that ends within that
\* tick (the task blocks in xTaskDelayUntil before the next tick) leaves the
\* counter as it was.
C31_StrictMissThreshold ==
    [][ \A h \in 1..Len(tcbs) :
          /\ tcbs'[h].xDeadlineMissCount >= tcbs[h].xDeadlineMissCount
          /\ tcbs'[h].xDeadlineMissCount > tcbs[h].xDeadlineMissCount
                => /\ xTickCount' = xTickCount + 1
                   /\ ReadyIndex(h)' > 0
                   /\ xTickCount' > tcbs'[h].xAbsoluteDeadline
          /\ (xTickCount' = xTickCount + 1 /\ xTickCount' <= tcbs'[h].xAbsoluteDeadline)
                => tcbs'[h].xDeadlineMissCount = tcbs[h].xDeadlineMissCount
          /\ (xTickCount' = xTickCount + 1 /\ ReadyIndex(h)' = 0)
                => tcbs'[h].xDeadlineMissCount = tcbs[h].xDeadlineMissCount ]_vars

\* A job that was still running at the tick equal to its absolute deadline
\* has ended within that tick, its task sleeps, and nothing was counted.
C31_Witness ==
    /\ lastCall.op = "xTaskDelayUntil"
    /\ lastCall.switched
    /\ \E h \in 1..Len(tcbs) :
          /\ InDelayedList(h)
          /\ body[h].pc = "delayed"
          /\ body[h].xStart + tcbs[h].xWCET = xTickCount
          /\ tcbs[h].xAbsoluteDeadline = xTickCount
          /\ tcbs[h].xDeadlineMissCount = 0

\* C32 -- Log and continue.  A tick that counts a miss of task h changes
\* nothing of h but the counter: h was on the ready list and stays on it, its
\* absolute deadline, its sort key and its other fields are the same, its
\* body is where it was, and, unless a release of the same tick asks for a
\* switch, the task that ran goes on running.  A task with misses on its
\* record is released as any other when its wake time comes.
C32_LogAndContinue ==
    [][ \A h \in 1..Len(tcbs) :
          /\ (tcbs'[h].xDeadlineMissCount # tcbs[h].xDeadlineMissCount /\ ~WokenInStep(h))
                => /\ ReadyIndex(h) > 0
                   /\ ReadyIndex(h)' > 0
                   /\ tcbs'[h] = [tcbs[h] EXCEPT !.xDeadlineMissCount = @ + 1]
                   /\ body'[h] = body[h]
                   /\ ~InDelayedList(h)'
                   /\ ~lastCall'.switched => pxCurrentTCB' = pxCurrentTCB
          /\ (tcbs'[h].xDeadlineMissCount # tcbs[h].xDeadlineMissCount /\ WokenInStep(h))
                => /\ ReadyIndex(h)' > 0
                   /\ body'[h] = body[h]
                   /\ tcbs'[h].xItemValue = tcbs'[h].xAbsoluteDeadline
                   /\ tcbs'[h].xAbsoluteDeadline
                          = tcbs[h].xNextReleaseTime + tcbs[h].xRelativeDeadline
          /\ ( /\ xTickCount' = xTickCount + 1
               /\ InDelayedList(h)
               /\ tcbs[h].xItemValue <= xTickCount'
               /\ tcbs[h].xDeadlineMissCount > 0 )
                => /\ ReadyIndex(h)' > 0
                   /\ tcbs'[h].xNextReleaseTime = tcbs[h].xNextReleaseTime + tcbs[h].xPeriod ]_vars

\* A task with a miss on its record has just been released for a later
\* period: the tick has put it back on the ready list with its new deadline
\* as the sort key.
C32_Witness ==
    /\ lastCall.op = "xTaskIncrementTick"
    /\ \E h \in 1..Len(tcbs) :
          /\ tcbs[h].xDeadlineMissCount > 0
          /\ ReadyIndex(h) > 0
          /\ body[h].pc = "delayed"
          /\ insertStamp[h] = insertCount
          /\ tcbs[h].xItemValue = tcbs[h].xAbsoluteDeadline
          /\ body[h].xLastWakeTime = xTickCount

\* The body of task h begins a new job in the step without having slept:
\* its xTaskDelayUntil returns at once and the next vBusyWait starts.
StartsJobWithoutSleep(h) ==
    /\ lastCall'.op = "xTaskDelayUntil"
    /\ pxCurrentTCB = h
    /\ body[h].pc = "busy"
    /\ body'[h].pc = "returned"

\* C34 -- The deadline in force is the running job's own.  When the body of
\* a task starts a new job its absolute deadline is no longer that of the
\* job before: it is renewed on the step that wakes the task from the
\* delayed list, and also on the step in which xTaskDelayUntil returns at
\* once, after a job that ran up to or past the next release, so that the
\* task never stood in the delayed list.
C34_DeadlineInForce ==
    [][ \A h \in 1..Len(tcbs) :
          tcbs[h].xIsEDFTask
          => /\ WokenInStep(h)
                  => tcbs'[h].xAbsoluteDeadline # tcbs[h].xAbsoluteDeadline
             /\ StartsJobWithoutSleep(h)
                  => tcbs'[h].xAbsoluteDeadline # tcbs[h].xAbsoluteDeadline ]_vars

\* An EDF job is ready: an EDF task stands on the ready list of level 1.
EDFJobReady ==
    \E k \in 1..Len(pxReadyTasksLists) : tcbs[pxReadyTasksLists[k]].xIsEDFTask

\* A task that is not an EDF task is ready at the EDF level or above it.
OtherReadyAtOrAboveEDF ==
    \/ \E k \in 1..Len(pxReadyTasksLists) : ~tcbs[pxReadyTasksLists[k]].xIsEDFTask
    \/ \E p \in OtherLevels : p > 1 /\ pxReadyOther[p].items # <<>>

\* The running task is an EDF task (the idle task is not).
RunningIsEDF ==
    IF pxCurrentTCB = IdleTask THEN FALSE ELSE tcbs[pxCurrentTCB].xIsEDFTask

\* C35 -- Work conservation across bands, as the claim states it.  While the
\* scheduler runs, if an EDF job is ready the running task is an EDF job and
\* not the idle task, and the idle task runs only while every EDF task
\* sleeps.
C35_WorkConserving ==
    xSchedulerRunning
        => /\ EDFJobReady => RunningIsEDF
           /\ pxCurrentTCB = IdleTask
                => \A h \in 1..Len(tcbs) : tcbs[h].xIsEDFTask => InDelayedList(h)

\* C35 amended -- While the scheduler runs, if an EDF job is ready the
\* running task is neither the idle task nor a task of level 0, and it is an
\* EDF job unless a task that is not an EDF task is ready at the EDF level
\* or above it; the idle task runs only while every EDF task sleeps.
C35_WorkConservingBelowEDF ==
    xSchedulerRunning
        => /\ EDFJobReady
                => /\ pxCurrentTCB # IdleTask
                   /\ uxPriorityOf(tcbs, pxCurrentTCB) >= 1
                   /\ ~OtherReadyAtOrAboveEDF => RunningIsEDF
           /\ pxCurrentTCB = IdleTask
                => \A h \in 1..Len(tcbs) : tcbs[h].xIsEDFTask => InDelayedList(h)

\* A tick has woken an EDF job while a task of level 0 ran, and the EDF job
\* has taken the processor; the task of level 0 is still ready.
C35_Witness ==
    /\ xSchedulerRunning
    /\ lastCall.op = "xTaskIncrementTick"
    /\ lastCall.switched
    /\ RunningIsEDF
    /\ insertStamp[pxCurrentTCB] = insertCount
    /\ \E h \in ReadySetOfLevel(0) : h # IdleTask /\ xLastSwitchedIn[0] = {h}

\* C36 -- Selection and preemption agree.  While the scheduler runs and an
\* EDF job has the processor, that job is the head of the EDF ready list and
\* no ready EDF job has an absolute deadline strictly earlier than its own:
\* the strict comparison of the tick handler leaves no earlier job waiting
\* behind the running one.
C36_RunningIsHead ==
    (xSchedulerRunning /\ pxCurrentTCB # IdleTask)
        => /\ pxReadyTasksLists # <<>>
           /\ Head(pxReadyTasksLists) = pxCurrentTCB
           /\ \A k \in 1..Len(pxReadyTasksLists) :
                  tcbs[pxReadyTasksLists[k]].xAbsoluteDeadline
                      >= tcbs[pxCurrentTCB].xAbsoluteDeadline

\* A tick has released a job whose deadline equals the running job's: no
\* switch was asked for, and the released job stands right behind the running
\* one, which is still the head of the list.
C36_Witness ==
    /\ xSchedulerRunning
    /\ lastCall.op = "xTaskIncrementTick"
    /\ ~lastCall.switched
    /\ Len(pxReadyTasksLists) >= 2
    /\ pxReadyTasksLists[1] = pxCurrentTCB
    /\ insertStamp[pxReadyTasksLists[2]] = insertCount
    /\ body[pxReadyTasksLists[2]].pc = "delayed"
    /\ tcbs[pxReadyTasksLists[2]].xAbsoluteDeadline = tcbs[pxCurrentTCB].xAbsoluteDeadline

====
